---- MODULE Spec2Model ----
(***************************************************************************)
(* Chronicle metadata store and extraction pipeline.                       *)
(*                                                                         *)
(* The store is the SQLite database of src/src/store (tables sessions,     *)
(* messages, projects, project_paths, project_identifiers, probe_sources). *)
(* Every SQL statement is one atomic step of the database (autocommit: the *)
(* code opens no transaction).  Strings are TLA+ strings; Option::None and *)
(* SQL NULL of a text column are the string None, an optional integer is a *)
(* sequence of length 0 or 1.                                              *)
(***************************************************************************)
EXTENDS Integers, Sequences, FiniteSets, TLC

VARIABLES
    sessions,            \* table sessions: session id -> row
    messages,            \* table messages: session id -> its rows in rowid order
    projects,            \* table projects: project id -> row
    project_paths,       \* table project_paths: set of rows (path UNIQUE)
    project_identifiers, \* table project_identifiers: set of rows
    probe_sources,       \* table probe_sources: probe id -> row
    last,                \* what the last store call was given and returned
    run,                 \* the extraction pipeline (cli/extract.rs run)
    writers,             \* two connections upserting statement by statement
    source,              \* the probes' side: roots, a session file, the last call
    db,                  \* the connection's foreign-key setting, message rowids,
                         \* tables tool_uses and token_usage
    config               \* Config: the probes map and the last query made of it

vars == <<sessions, messages, projects, project_paths, project_identifiers,
          probe_sources, last, run, writers, source, db, config>>

None == "None"

(***************************************************************************)
(* Text primitives of Rust and SQLite, computed as they compute them.      *)
(***************************************************************************)
Char(s, i) == SubSeq(s, i, i)

Rest(s) == SubSeq(s, 2, Len(s))

starts_with(s, p) == Len(s) >= Len(p) /\ SubSeq(s, 1, Len(p)) = p

\* str::strip_prefix: the remainder, or None when s does not start with p
strip_prefix(s, p) == IF starts_with(s, p) THEN SubSeq(s, Len(p) + 1, Len(s)) ELSE None

UpperLetters == "ABCDEFGHIJKLMNOPQRSTUVWXYZ"

LowerLetters == "abcdefghijklmnopqrstuvwxyz"

FoldTable ==
    [c \in {Char(UpperLetters, i) : i \in 1..26} |->
        Char(LowerLetters, CHOOSE i \in 1..26 : Char(UpperLetters, i) = c)]

\* SQLite's LIKE folds ASCII letters
FoldCase(c) == IF c \in DOMAIN FoldTable THEN FoldTable[c] ELSE c

\* SQLite: s LIKE pat, where % matches any run of characters and _ exactly one
RECURSIVE Like(_, _)
Like(s, pat) ==
    IF pat = "" THEN s = ""
    ELSE IF Char(pat, 1) = "%"
         THEN Like(s, Rest(pat)) \/ (s # "" /\ Like(Rest(s), pat))
         ELSE /\ s # ""
              /\ (Char(pat, 1) = "_" \/ FoldCase(Char(pat, 1)) = FoldCase(Char(s, 1)))
              /\ Like(Rest(s), Rest(pat))

\* SQLite: SUBSTR(s, start), 1-based, to the end of s
Substr(s, start) == IF start > Len(s) THEN "" ELSE SubSeq(s, start, Len(s))

DigitTable == [c \in {ToString(d) : d \in 0..9} |-> CHOOSE d \in 0..9 : ToString(d) = c]

IsDigit(c) == c \in DOMAIN DigitTable

DigitValue(c) == DigitTable[c]

RECURSIVE DigitsPrefix(_, _)
DigitsPrefix(s, acc) ==
    IF s = "" \/ ~IsDigit(Char(s, 1)) THEN acc
    ELSE DigitsPrefix(Rest(s), acc * 10 + DigitValue(Char(s, 1)))

\* SQLite: CAST(s AS INTEGER) reads an optional sign and the longest run of
\* digits that follows; text with no such prefix is 0
CastInteger(s) ==
    IF s # "" /\ Char(s, 1) = "-" THEN 0 - DigitsPrefix(Rest(s), 0)
    ELSE IF s # "" /\ Char(s, 1) = "+" THEN DigitsPrefix(Rest(s), 0)
    ELSE DigitsPrefix(s, 0)

MaxOf(S) == CHOOSE m \in S : \A x \in S : x <= m

\* Option<i64>::unwrap_or
unwrap_or(opt, d) == IF opt = <<>> THEN d ELSE opt[1]

(***************************************************************************)
(* Identity resolution: MetadataStore::compute_short_hash.                 *)
(***************************************************************************)
HashLen == 8

\* the base hash: known prefix stripped, first 8 characters
BaseHash(external_id) ==
    LET a == strip_prefix(external_id, "agent-")
        b == strip_prefix(external_id, "ses_")
        base == IF a # None THEN a ELSE IF b # None THEN b ELSE external_id
    IN  IF Len(base) >= HashLen THEN SubSeq(base, 1, HashLen) ELSE base

\* SELECT COUNT(*) FROM sessions WHERE short_hash = ?1 OR short_hash LIKE '?1-_'
ExistingCount(S, base_hash) ==
    Cardinality({id \in DOMAIN S :
        \/ S[id].short_hash = base_hash
        \/ Like(S[id].short_hash, base_hash \o "-_")})

\* SELECT MAX(CAST(SUBSTR(short_hash, LENGTH(?1) + 2) AS INTEGER))
\*   FROM sessions WHERE short_hash LIKE '?1-%'      (NULL over no rows)
MaxSuffix(S, base_hash) ==
    LET rows == {id \in DOMAIN S : Like(S[id].short_hash, base_hash \o "-%")}
    IN  IF rows = {} THEN <<>>
        ELSE <<MaxOf({CastInteger(Substr(S[id].short_hash, Len(base_hash) + 2)) : id \in rows})>>

\* SELECT short_hash LIKE '%-%' FROM sessions WHERE short_hash = ?
\*   (.unwrap_or(false) when no row has the bare base)
OriginalHasSuffix(S, base_hash) ==
    IF \E id \in DOMAIN S : S[id].short_hash = base_hash
    THEN Like(base_hash, "%-%")
    ELSE FALSE

\* UPDATE sessions SET short_hash = '?2-1' WHERE short_hash = ?2
RenameOriginal(S, base_hash) ==
    [id \in DOMAIN S |->
        IF S[id].short_hash = base_hash
        THEN [S[id] EXCEPT !.short_hash = base_hash \o "-1"]
        ELSE S[id]]

\* a compute_short_hash that never suffixes
ComputeShortHash_BareBase(S, external_id) ==
    [hash |-> BaseHash(external_id), sessions |-> S]

\* the hash returned for a new session and the sessions table it leaves behind
ComputeShortHash(S, external_id) ==
    LET base_hash == BaseHash(external_id)
        existing_count == ExistingCount(S, base_hash)
    IN  IF existing_count = 0
        THEN [hash |-> base_hash, sessions |-> S]
        ELSE LET next_suffix == unwrap_or(MaxSuffix(S, base_hash), 0) + 1
             IN  [hash |-> base_hash \o "-" \o ToString(next_suffix + 1),
                  sessions |-> IF existing_count = 1 /\ ~OriginalHasSuffix(S, base_hash)
                               THEN RenameOriginal(S, base_hash)
                               ELSE S]

(***************************************************************************)
(* Projects and auto-linking.                                              *)
(***************************************************************************)
\* SELECT project_id FROM project_paths WHERE path = ?
FindProjectByPath(path) ==
    IF \E r \in project_paths : r.path = path
    THEN (CHOOSE r \in project_paths : r.path = path).project_id
    ELSE None

\* SELECT project_id FROM project_identifiers
\*   WHERE identifier_type = 'git_remote' AND identifier_value = ?
FindProjectByGitRemote(remote) ==
    IF \E r \in project_identifiers :
            r.identifier_type = "git_remote" /\ r.identifier_value = remote
    THEN (CHOOSE r \in project_identifiers :
            r.identifier_type = "git_remote" /\ r.identifier_value = remote).project_id
    ELSE None

\* an auto-link that tries the git remote before the path
AutoLinkProject_RemoteFirst(metadata) ==
    LET by_path == IF metadata.project_path # None
                   THEN FindProjectByPath(metadata.project_path)
                   ELSE None
        by_remote == IF metadata.git_remote # None
                     THEN FindProjectByGitRemote(metadata.git_remote)
                     ELSE None
    IN  IF by_remote # None THEN by_remote ELSE by_path

\* path match first, then git remote, else none
AutoLinkProject(metadata) ==
    LET by_path == IF metadata.project_path # None
                   THEN FindProjectByPath(metadata.project_path)
                   ELSE None
        by_remote == IF metadata.git_remote # None
                     THEN FindProjectByGitRemote(metadata.git_remote)
                     ELSE None
    IN  IF by_path # None THEN by_path ELSE by_remote

\* UPDATE projects SET last_activity = datetime('now') WHERE id = ?
\* (the instant is named after the call that stamps it)
TouchProject(P, project_id, now) ==
    [id \in DOMAIN P |->
        IF id = project_id THEN [P[id] EXCEPT !.last_activity = now] ELSE P[id]]

\* INSERT OR IGNORE INTO project_paths: ignored when the path is already there
InsertPathOrIgnore(paths, project_id, path, is_primary) ==
    IF \E r \in paths : r.path = path THEN paths
    ELSE paths \cup {[project_id |-> project_id, path |-> path, is_primary |-> is_primary]}

\* INSERT OR IGNORE INTO project_identifiers: UNIQUE(identifier_type, identifier_value)
InsertIdentifierOrIgnore(idents, project_id, identifier_type, identifier_value) ==
    IF \E r \in idents : r.identifier_type = identifier_type
                         /\ r.identifier_value = identifier_value
    THEN idents
    ELSE idents \cup {[project_id |-> project_id, identifier_type |-> identifier_type,
                       identifier_value |-> identifier_value]}

(***************************************************************************)
(* Sessions: MetadataStore::upsert_session.                                *)
(***************************************************************************)
SessionId(probe_source_id, session) == probe_source_id \o ":" \o session.id

\* a new row that records "no project matched" as the user state 'unassigned'
NewSessionRow_Unassigned(probe_source_id, session, metadata, short_hash, project_id) ==
    [probe_source_id    |-> probe_source_id,
     project_id         |-> project_id,
     project_assignment |-> IF project_id # None THEN "auto" ELSE "unassigned",
     external_id        |-> metadata.external_id,
     short_hash         |-> short_hash,
     title              |-> metadata.title,
     primary_provider   |-> metadata.primary_provider,
     primary_model      |-> metadata.primary_model,
     message_count      |-> Len(metadata.messages),
     first_timestamp    |-> metadata.first_timestamp,
     last_timestamp     |-> metadata.last_timestamp,
     source_path        |-> session.source_path,
     raw_project_path   |-> metadata.project_path,
     raw_git_remote     |-> metadata.git_remote]

\* the row the INSERT writes for a new session
NewSessionRow(probe_source_id, session, metadata, short_hash, project_id) ==
    [probe_source_id    |-> probe_source_id,
     project_id         |-> project_id,
     project_assignment |-> "auto",
     external_id        |-> metadata.external_id,
     short_hash         |-> short_hash,
     title              |-> metadata.title,
     primary_provider   |-> metadata.primary_provider,
     primary_model      |-> metadata.primary_model,
     message_count      |-> Len(metadata.messages),
     first_timestamp    |-> metadata.first_timestamp,
     last_timestamp     |-> metadata.last_timestamp,
     source_path        |-> session.source_path,
     raw_project_path   |-> metadata.project_path,
     raw_git_remote     |-> metadata.git_remote]

\* an UPDATE branch that also refreshes first_timestamp and the raw path
UpdatedSessionRow_AllExtracted(row, metadata) ==
    [row EXCEPT !.title            = metadata.title,
                !.primary_provider = metadata.primary_provider,
                !.primary_model    = metadata.primary_model,
                !.message_count    = Len(metadata.messages),
                !.first_timestamp  = metadata.first_timestamp,
                !.last_timestamp   = metadata.last_timestamp,
                !.raw_project_path = metadata.project_path]

\* ON CONFLICT(id) DO UPDATE SET: the columns an existing row gets
UpdatedSessionRow(row, metadata) ==
    [row EXCEPT !.title            = metadata.title,
                !.primary_provider = metadata.primary_provider,
                !.primary_model    = metadata.primary_model,
                !.message_count    = Len(metadata.messages),
                !.last_timestamp   = metadata.last_timestamp]

\* INSERT OR REPLACE: an existing row is overwritten by the new one
InsertOrUpdateSession_Replace(S, session_id, new_row, metadata) ==
    [id \in DOMAIN S \cup {session_id} |-> IF id # session_id THEN S[id] ELSE new_row]

\* the sessions table after INSERT ... ON CONFLICT(id) DO UPDATE
InsertOrUpdateSession(S, session_id, new_row, metadata) ==
    [id \in DOMAIN S \cup {session_id} |->
        IF id # session_id THEN S[id]
        ELSE IF session_id \in DOMAIN S THEN UpdatedSessionRow(S[id], metadata)
        ELSE new_row]

\* an upsert that computes a hash whether or not the session exists
ResolveShortHash_Recompute(S, session_id, external_id) ==
    ComputeShortHash(S, external_id)

\* SELECT short_hash FROM sessions WHERE id = ?: an existing session keeps its
\* hash and compute_short_hash is not run
ResolveShortHash(S, session_id, external_id) ==
    IF session_id \in DOMAIN S
    THEN [hash |-> S[session_id].short_hash, sessions |-> S]
    ELSE ComputeShortHash(S, external_id)

\* fail names the statement of upsert_session the database rejects: "none",
\* "hash" (the lookup or the first query of compute_short_hash) or "insert"
\* (the INSERT, after compute_short_hash has run).
\* The sessions table the call leaves behind:
SessionsAfterUpsert(S, probe_source_id, session, metadata, fail) ==
    LET session_id == SessionId(probe_source_id, session)
        resolved   == ResolveShortHash(S, session_id, metadata.external_id)
        project_id == AutoLinkProject(metadata)
        new_row    == NewSessionRow(probe_source_id, session, metadata,
                                    resolved.hash, project_id)
    IN  IF fail = "hash" THEN S
        ELSE IF fail = "insert" THEN resolved.sessions
        ELSE InsertOrUpdateSession(resolved.sessions, session_id, new_row, metadata)

\* an upsert_session that creates a project for a project path no project has
ProjectsAfterUpsert_Create(P, probe_source_id, session, metadata, fail) ==
    IF fail = "none" /\ AutoLinkProject(metadata) # None
    THEN TouchProject(P, AutoLinkProject(metadata), SessionId(probe_source_id, session))
    ELSE IF fail = "none" /\ metadata.project_path # None
    THEN [p \in DOMAIN P \cup {metadata.project_path} |->
             IF p \in DOMAIN P THEN P[p]
             ELSE [name |-> metadata.project_path, type |-> "code",
                   primary_path |-> metadata.project_path,
                   last_activity |-> SessionId(probe_source_id, session)]]
    ELSE P

\* lines 296-299: the project the call links to is touched
ProjectsAfterUpsert(P, probe_source_id, session, metadata, fail) ==
    IF fail = "none" /\ AutoLinkProject(metadata) # None
    THEN TouchProject(P, AutoLinkProject(metadata), SessionId(probe_source_id, session))
    ELSE P

\* the values of the extraction that the UPDATE branch writes (excluded.*)
Extracted(metadata) ==
    [title            |-> metadata.title,
     primary_provider |-> metadata.primary_provider,
     primary_model    |-> metadata.primary_model,
     message_count    |-> Len(metadata.messages),
     last_timestamp   |-> metadata.last_timestamp]

\* what the call was given and what it returned
UpsertCalled(probe_source_id, session, metadata, fail) ==
    [op |-> "upsert_session",
     session_id |-> SessionId(probe_source_id, session),
     existed |-> SessionId(probe_source_id, session) \in DOMAIN sessions,
     result |-> IF fail = "none" THEN SessionId(probe_source_id, session) ELSE "Err",
     project_path |-> metadata.project_path,
     git_remote |-> metadata.git_remote,
     project_id |-> IF fail = "hash" THEN None ELSE AutoLinkProject(metadata),
     extracted |-> <<Extracted(metadata)>>]

UpsertSession(probe_source_id, session, metadata, fail) ==
    /\ sessions' = SessionsAfterUpsert(sessions, probe_source_id, session, metadata, fail)
    /\ projects' = ProjectsAfterUpsert(projects, probe_source_id, session, metadata, fail)
    /\ last' = UpsertCalled(probe_source_id, session, metadata, fail)
    /\ UNCHANGED <<messages, project_paths, project_identifiers, probe_sources>>

Called(op, session_id, result) ==
    [op |-> op, session_id |-> session_id, existed |-> session_id \in DOMAIN sessions,
     result |-> result, project_path |-> None, git_remote |-> None, project_id |-> None,
     extracted |-> <<>>]

\* an assign that sets the project and leaves project_assignment as it is
AssignSessionToProject_KeepAssignment(session_id, project_id) ==
    /\ sessions' = [id \in DOMAIN sessions |->
                       IF id = session_id
                       THEN [sessions[id] EXCEPT !.project_id = project_id]
                       ELSE sessions[id]]
    /\ last' = [Called("assign_session_to_project", session_id, "Ok")
                    EXCEPT !.project_id = project_id]
    /\ UNCHANGED <<messages, projects, project_paths, project_identifiers, probe_sources>>

\* MetadataStore::assign_session_to_project (project_id = None is Option::None)
AssignSessionToProject(session_id, project_id) ==
    LET assignment == IF project_id # None THEN "user" ELSE "unassigned"
    IN  /\ sessions' = [id \in DOMAIN sessions |->
                           IF id = session_id
                           THEN [sessions[id] EXCEPT !.project_id = project_id,
                                                     !.project_assignment = assignment]
                           ELSE sessions[id]]
        /\ last' = [Called("assign_session_to_project", session_id, "Ok")
                        EXCEPT !.project_id = project_id]
        /\ UNCHANGED <<messages, projects, project_paths, project_identifiers, probe_sources>>

\* an unassign that marks the session and leaves its project
UnassignSession_KeepProject(session_id) ==
    /\ sessions' = [id \in DOMAIN sessions |->
                       IF id = session_id
                       THEN [sessions[id] EXCEPT !.project_assignment = "unassigned"]
                       ELSE sessions[id]]
    /\ last' = Called("unassign_session", session_id, "Ok")
    /\ UNCHANGED <<messages, projects, project_paths, project_identifiers, probe_sources>>

\* MetadataStore::unassign_session
UnassignSession(session_id) ==
    /\ sessions' = [id \in DOMAIN sessions |->
                       IF id = session_id
                       THEN [sessions[id] EXCEPT !.project_id = None,
                                                 !.project_assignment = "unassigned"]
                       ELSE sessions[id]]
    /\ last' = Called("unassign_session", session_id, "Ok")
    /\ UNCHANGED <<messages, projects, project_paths, project_identifiers, probe_sources>>

\* MetadataStore::create_project: the INSERT fails on a project id already there
CreateProject(id, name, project_type, primary_path) ==
    /\ IF id \in DOMAIN projects
       THEN /\ UNCHANGED <<projects, project_paths>>
            /\ last' = Called("create_project", None, "Err")
       ELSE /\ projects' = [p \in DOMAIN projects \cup {id} |->
                               IF p = id
                               THEN [name |-> name, type |-> project_type,
                                     primary_path |-> primary_path,
                                     last_activity |-> "created"]
                               ELSE projects[p]]
            /\ project_paths' = IF primary_path # None
                                THEN InsertPathOrIgnore(project_paths, id, primary_path, TRUE)
                                ELSE project_paths
            /\ last' = Called("create_project", None, "Ok")
    /\ UNCHANGED <<sessions, messages, project_identifiers, probe_sources>>

\* MetadataStore::add_project_path
AddProjectPath(project_id, path, is_primary) ==
    /\ project_paths' = InsertPathOrIgnore(project_paths, project_id, path, is_primary)
    /\ last' = Called("add_project_path", None, "Ok")
    /\ UNCHANGED <<sessions, messages, projects, project_identifiers, probe_sources>>

\* MetadataStore::add_project_identifier
AddProjectIdentifier(project_id, identifier_type, identifier_value) ==
    /\ project_identifiers' = InsertIdentifierOrIgnore(project_identifiers, project_id,
                                                       identifier_type, identifier_value)
    /\ last' = Called("add_project_identifier", None, "Ok")
    /\ UNCHANGED <<sessions, messages, projects, project_paths, probe_sources>>

(***************************************************************************)
(* Messages: MetadataStore::insert_messages.                               *)
(***************************************************************************)
\* the message rows of one session, in rowid order
MessagesOf(M, session_id) == IF session_id \in DOMAIN M THEN M[session_id] ELSE <<>>

\* DELETE FROM messages WHERE session_id = ?
DeleteMessagesOf(M, session_id) == [id \in DOMAIN M \ {session_id} |-> M[id]]

\* the row one INSERT INTO messages writes
MessageRow(session_id, msg) ==
    [session_id |-> session_id, uuid |-> msg.uuid, role |-> msg.role]

\* the table after the first n messages of msgs were inserted one by one
InsertedMessages(M, session_id, msgs, n) ==
    IF n = 0 THEN M
    ELSE [id \in DOMAIN M \cup {session_id} |->
            IF id = session_id
            THEN MessagesOf(M, id) \o [i \in 1..n |-> MessageRow(session_id, msgs[i])]
            ELSE M[id]]

\* an insert_messages that appends without the initial DELETE
MessagesAfterInsert_Append(M, session_id, msgs, fail) ==
    IF fail = <<0>> THEN M
    ELSE InsertedMessages(M, session_id, msgs,
                          IF fail = <<>> THEN Len(msgs) ELSE fail[1] - 1)

\* fail = <<>>: every statement succeeds.  fail = <<0>>: the DELETE is
\* rejected.  fail = <<k>>: the INSERT of the k-th message is rejected, after
\* the DELETE and the k-1 INSERTs before it were each committed.
\* The messages table the call leaves behind:
MessagesAfterInsert(M, session_id, msgs, fail) ==
    IF fail = <<0>> THEN M
    ELSE InsertedMessages(DeleteMessagesOf(M, session_id), session_id, msgs,
                          IF fail = <<>> THEN Len(msgs) ELSE fail[1] - 1)

InsertMessages(session_id, msgs, fail) ==
    /\ messages' = MessagesAfterInsert(messages, session_id, msgs, fail)
    /\ last' = Called("insert_messages", session_id, IF fail = <<>> THEN "Ok" ELSE "Err")
    /\ UNCHANGED <<sessions, projects, project_paths, project_identifiers, probe_sources>>

(***************************************************************************)
(* Inputs.                                                                 *)
(***************************************************************************)
\* ProbeRegistry::new: the probes a default configuration registers, in order
RegisteredProbes == <<"claude:ClaudeCode", "opencode:OpenCode", "zed:Zed">>

\* source-native session ids: a prefixed and a bare id sharing the base
\* "abcdef12", a short prefixed id, an id that ends in "-N" on that short base,
\* and an id with "-" inside its base
ExternalIds == {"agent-abcdef1234", "abcdef125678", "ses_abc", "abc-1", "ab-cd"}

\* SessionRef as discover() builds it
SessionRefOf(external_id) == [id |-> external_id, source_path |-> "/src/" \o external_id]

Message(uuid, role) == [uuid |-> uuid, role |-> role]

\* what one extraction of a session can yield: a conversation of two
\* messages, or a source file that holds no message
Extractions ==
    {[title |-> "t1", messages |-> <<Message("u1", "user"), Message("u2", "assistant")>>,
      last_timestamp |-> "ts2"],
     [title |-> None, messages |-> <<>>, last_timestamp |-> None]}

\* SessionMetadata as extract_metadata builds it (external_id is the ref's id)
Metadata(external_id, x, project_path, git_remote) ==
    [external_id      |-> external_id,
     title            |-> x.title,
     project_path     |-> project_path,
     git_remote       |-> git_remote,
     primary_provider |-> IF x.messages = <<>> THEN None ELSE "anthropic",
     primary_model    |-> IF x.messages = <<>> THEN None ELSE "model-" \o x.title,
     first_timestamp  |-> IF x.messages = <<>> THEN None ELSE "ts1",
     last_timestamp   |-> x.last_timestamp,
     messages         |-> x.messages]

(***************************************************************************)
(* The store used sequentially through one connection.                     *)
(***************************************************************************)
MaxSessions == 3

IdleRun ==
    [pc |-> "idle", probes |-> <<>>, i |-> 0, refs |-> <<>>, j |-> 0,
     metadata |-> None, session_id |-> None, existed |-> FALSE, error |-> None]

NoWriters == <<>>

\* the probes' side of a machine on which no tool has been installed yet: no
\* probe root exists, there is no session file, nothing was indexed and no
\* probe method was called
NoSource ==
    [roots |-> {}, file |-> <<>>, indexed |-> <<>>,
     call |-> [op |-> "none", probe |-> None, arg |-> <<>>,
               result |-> [ok |-> TRUE, value |-> <<>>]]]

\* the database before MetadataStore::open has made its connection: whether
\* the connection enforces foreign keys is not known yet (<<>>), no message
\* has a rowid and tool_uses and token_usage are empty
NoDb == [foreign_keys |-> <<>>, message_ids |-> <<>>, tool_uses |-> {}, token_usage |-> {}]

\* Config::default(): no probe is configured; no query was made yet
DefaultConfig ==
    [probes |-> <<>>,
     call |-> [op |-> "none", probes |-> <<>>, probe_id |-> None, result |-> TRUE]]

Init ==
    /\ sessions = <<>>
    /\ messages = <<>>
    /\ projects = <<>>
    /\ project_paths = {}
    /\ project_identifiers = {}
    /\ probe_sources = <<>>
    /\ last = Called("open", None, "Ok")
    /\ run = IdleRun
    /\ writers = NoWriters
    /\ source = NoSource
    /\ db = NoDb
    /\ config = DefaultConfig

\* one more session row fits the bound, or the row is there already
Fits(session_id) ==
    session_id \in DOMAIN sessions \/ Cardinality(DOMAIN sessions) < MaxSessions

Upsert ==
    \E probe \in {RegisteredProbes[1], RegisteredProbes[2]}, e \in ExternalIds,
       x \in {y \in Extractions : y.title = "t1"},
       fail \in {"none", "insert"} :
        /\ Fits(SessionId(probe, SessionRefOf(e)))
        /\ UpsertSession(probe, SessionRefOf(e), Metadata(e, x, None, None), fail)
        /\ UNCHANGED <<run, writers, source, db, config>>

Next == Upsert

Spec == Init /\ [][Next]_vars

(***************************************************************************)
(* Identity of sessions under sequential upserts.                          *)
(***************************************************************************)
SameBase(a, b) ==
    BaseHash(sessions[a].external_id) = BaseHash(sessions[b].external_id)

\* C1: after any sequence of upsert_session calls, no two session rows have
\* the same short_hash.
C1_ShortHashUnique ==
    \A a, b \in DOMAIN sessions : a # b => sessions[a].short_hash # sessions[b].short_hash

\* three sessions are stored, two of them with the same base
C1_CollidingSessionsStored ==
    /\ Cardinality(DOMAIN sessions) = 3
    /\ \E a, b \in DOMAIN sessions : a # b /\ SameBase(a, b)

\* C2: when a new session arrives whose base is held bare by a stored session,
\* the stored session's short_hash becomes base-1 and the new one's is base-2.
C2_FirstCollisionRenamesOriginal ==
    [][\A first \in DOMAIN sessions, second \in DOMAIN sessions' \ DOMAIN sessions :
          LET base == BaseHash(sessions'[second].external_id)
          IN  sessions[first].short_hash = base
              => /\ sessions'[first].short_hash = base \o "-1"
                 /\ sessions'[second].short_hash = base \o "-2"]_vars

\* C3: upserting a session whose key exists returns that session id, adds no
\* row and leaves every session's short_hash as it was.
C3_ReupsertKeepsIdentity ==
    [][(last'.op = "upsert_session" /\ last'.session_id \in DOMAIN sessions)
          => /\ last'.result \in {last'.session_id, "Err"}
             /\ DOMAIN sessions' = DOMAIN sessions
             /\ \A id \in DOMAIN sessions :
                    sessions'[id].short_hash = sessions[id].short_hash]_vars

\* an existing session that holds the bare base of a collision-free base has
\* just been upserted again
C3_ReupsertedBareSession ==
    /\ last.op = "upsert_session" /\ last.existed /\ last.result = last.session_id
    /\ sessions[last.session_id].short_hash = "abcdef12"
    /\ Cardinality(DOMAIN sessions) >= 2

(***************************************************************************)
(* Project linking: the project commands, session assign/unassign and      *)
(* upserts of one session whose extracted path and remote vary.            *)
(***************************************************************************)
ProjectIds == {"proj-a", "proj-b"}

ProjectPath == "/home/u/proj"

GitRemote == "git@host:u/proj.git"

LinkProbe == RegisteredProbes[1]

LinkSession == SessionRefOf("agent-abcdef1234")

LinkSessionId == SessionId(LinkProbe, LinkSession)

\* cli/project.rs create: a fresh id, an optional primary path
LinkCreateProject ==
    \E id \in ProjectIds, primary_path \in {None, ProjectPath} :
        /\ id \notin DOMAIN projects
        /\ CreateProject(id, id, "code", primary_path)
        /\ UNCHANGED <<run, writers, source, db, config>>

\* cli/project.rs add_path: an existing project
LinkAddPath ==
    \E id \in DOMAIN projects :
        /\ AddProjectPath(id, ProjectPath, FALSE)
        /\ UNCHANGED <<run, writers, source, db, config>>

\* cli/project.rs add_git: an existing project
LinkAddGit ==
    \E id \in DOMAIN projects, type \in {"git_remote", "custom"} :
        /\ AddProjectIdentifier(id, type, GitRemote)
        /\ UNCHANGED <<run, writers, source, db, config>>

LinkUpsert ==
    \E project_path \in {None, ProjectPath}, git_remote \in {None, GitRemote},
       x \in Extractions :
        /\ UpsertSession(LinkProbe, LinkSession,
                         Metadata(LinkSession.id, x, project_path, git_remote), "none")
        /\ UNCHANGED <<run, writers, source, db, config>>

\* cli/session.rs assign: an existing session and an existing project
LinkAssign ==
    \E id \in DOMAIN sessions, project_id \in DOMAIN projects :
        /\ AssignSessionToProject(id, project_id)
        /\ UNCHANGED <<run, writers, source, db, config>>

\* cli/session.rs unassign: an existing session
LinkUnassign ==
    \E id \in DOMAIN sessions :
        /\ UnassignSession(id)
        /\ UNCHANGED <<run, writers, source, db, config>>

NextLink ==
    \/ LinkCreateProject
    \/ LinkAddPath
    \/ LinkAddGit
    \/ LinkUpsert
    \/ LinkAssign
    \/ LinkUnassign

SpecLink == Init /\ [][NextLink]_vars

\* the project_paths rows with this path, the git_remote identifiers with this value
PathRows(path) == {r \in project_paths : path # None /\ r.path = path}

RemoteRows(remote) ==
    {r \in project_identifiers :
        remote # None /\ r.identifier_type = "git_remote" /\ r.identifier_value = remote}

\* C5: once a session is 'user' or 'unassigned', a later upsert_session of its
\* key leaves project_id and project_assignment as they were.
C5_UserAssignmentSurvivesUpsert ==
    [][(/\ last'.op = "upsert_session"
        /\ last'.session_id \in DOMAIN sessions
        /\ sessions[last'.session_id].project_assignment \in {"user", "unassigned"})
          => /\ sessions'[last'.session_id].project_id = sessions[last'.session_id].project_id
             /\ sessions'[last'.session_id].project_assignment
                    = sessions[last'.session_id].project_assignment]_vars

\* a session the user assigned to one project was upserted again while its
\* extracted path or remote matched another project
C5_ReextractedAgainstOtherProject ==
    /\ last.op = "upsert_session" /\ last.existed
    /\ sessions[last.session_id].project_assignment = "user"
    /\ last.project_id \notin {None, sessions[last.session_id].project_id}

\* C8: auto_link_project returns the owner of the project_paths row equal to
\* the session's project_path if there is one, otherwise the owner of the
\* 'git_remote' identifier equal to its git_remote, otherwise none.
C8_AutoLinkPathThenRemote ==
    (last.op = "upsert_session" /\ last.result # "Err")
        => IF PathRows(last.project_path) # {}
           THEN \A r \in PathRows(last.project_path) : last.project_id = r.project_id
           ELSE IF RemoteRows(last.git_remote) # {}
           THEN \A r \in RemoteRows(last.git_remote) : last.project_id = r.project_id
           ELSE last.project_id = None

\* the path matched one project, the remote another, and the path's owner won
C8_PathBeatsRemote ==
    /\ last.op = "upsert_session"
    /\ \E a \in PathRows(last.project_path), b \in RemoteRows(last.git_remote) :
           a.project_id # b.project_id /\ last.project_id = a.project_id

\* C9: a session inserted for the first time gets the auto_link_project result
\* as project_id and 'auto' as project_assignment, null and 'auto' when
\* nothing matches; a project created with the session's path is linked.
C9_FirstInsertAutoLinked ==
    (last.op = "upsert_session" /\ ~last.existed /\ last.result # "Err")
        => LET row == sessions[last.session_id]
           IN  /\ row.project_assignment = "auto"
               /\ row.project_id = last.project_id
               /\ (PathRows(row.raw_project_path) = {} /\ RemoteRows(row.raw_git_remote) = {})
                      => row.project_id = None
               /\ \A id \in DOMAIN projects :
                      (/\ row.raw_project_path = ProjectPath
                       /\ [project_id |-> id, path |-> ProjectPath, is_primary |-> TRUE]
                              \in project_paths)
                          => row.project_id = id

\* a session with path "/home/u/proj" and no remote was inserted after a project
\* was created with that path, and is linked to it
C9_LinkedOnFirstUpsert ==
    /\ last.op = "upsert_session" /\ ~last.existed
    /\ sessions[last.session_id].raw_project_path = ProjectPath
    /\ sessions[last.session_id].raw_git_remote = None
    /\ \E id \in DOMAIN projects :
           /\ projects[id].primary_path = ProjectPath
           /\ sessions[last.session_id].project_id = id
           /\ sessions[last.session_id].project_assignment = "auto"

(***************************************************************************)
(* The extraction pipeline: cli/extract.rs run, one store or probe call    *)
(* per step.  A call that returns Err ends the run (the ? operator).       *)
(***************************************************************************)
\* what discover() finds under each probe's root
Discovered(probe) ==
    IF probe = "claude:ClaudeCode"
    THEN <<SessionRefOf("agent-abcdef1234"), SessionRefOf("abcdef125678")>>
    ELSE IF probe = "opencode:OpenCode" THEN <<SessionRefOf("ses_abc")>>
    ELSE <<>>

\* the registry of a configuration that disables zed:Zed
Registry == SubSeq(RegisteredProbes, 1, 2)

\* an available_probes that does not filter
AvailableProbes_All(existing) == Registry

\* ProbeRegistry::available_probes: the registered probes whose root exists
AvailableProbes(existing) == SelectSeq(Registry, LAMBDA p : p \in existing)

\* main opens the store and calls run (lines 11-16): with no available probe
\* the run returns Ok at once
RunStart ==
    /\ run.pc \in {"idle", "done", "failed"}
    /\ \E existing \in SUBSET {Registry[k] : k \in 1..Len(Registry)} :
           LET available == AvailableProbes(existing)
           IN  run' = IF available = <<>>
                      THEN [IdleRun EXCEPT !.pc = "done"]
                      ELSE [IdleRun EXCEPT !.pc = "probe", !.probes = available, !.i = 1]
    /\ last' = Called("open", None, "Ok")
    /\ UNCHANGED <<sessions, messages, projects, project_paths, project_identifiers,
                   probe_sources, writers, source, db, config>>

\* INSERT OR IGNORE INTO probe_sources
EnsureProbeSource(PS, id) ==
    [p \in DOMAIN PS \cup {id} |->
        IF p \in DOMAIN PS THEN PS[p] ELSE [status |-> "active", last_indexed |-> None]]

\* lines 19-42: ensure the probe's rows, then discover its sessions
RunProbe ==
    /\ run.pc = "probe"
    /\ \E ok \in BOOLEAN :
           LET probe == run.probes[run.i]
               refs == Discovered(probe)
           IN  IF ok
               THEN /\ probe_sources' = EnsureProbeSource(probe_sources, probe)
                    /\ run' = [run EXCEPT !.refs = refs,
                                          !.j = IF refs = <<>> THEN 0 ELSE 1,
                                          !.pc = IF refs = <<>> THEN "mark" ELSE "session"]
               ELSE /\ UNCHANGED probe_sources
                    /\ run' = [run EXCEPT !.pc = "failed", !.error = "store"]
    /\ UNCHANGED <<sessions, messages, projects, project_paths, project_identifiers,
                   last, writers, source, db, config>>

\* lines 44-69, one turn of the loop over the discovered sessions:
\* extract_metadata(session)?, upsert_session(..)?, and insert_messages(..)?
\* when the extraction has messages.  The first call that returns Err ends
\* the run; run records the session the turn was about.
RunSession ==
    /\ run.pc = "session"
    /\ LET probe == run.probes[run.i]
           ref == run.refs[run.j]
           session_id == SessionId(probe, ref)
           turn == [run EXCEPT !.session_id = session_id,
                               !.existed = session_id \in DOMAIN sessions]
       IN  \/ /\ run' = [turn EXCEPT !.pc = "failed", !.error = "extract"]
              /\ UNCHANGED <<sessions, messages, projects, last>>
           \/ \E x \in Extractions, fail \in {"none", "insert"} :
              \E mfail \in {<<>>} \cup {<<k>> : k \in 0..Len(x.messages)} :
                  LET metadata == Metadata(ref.id, x, None, None)
                      inserting == fail = "none" /\ metadata.messages # <<>>
                  IN  /\ inserting \/ mfail = <<>>
                      /\ sessions' = SessionsAfterUpsert(sessions, probe, ref, metadata, fail)
                      /\ projects' = ProjectsAfterUpsert(projects, probe, ref, metadata, fail)
                      /\ messages' = IF inserting
                                     THEN MessagesAfterInsert(messages, session_id,
                                                              metadata.messages, mfail)
                                     ELSE messages
                      /\ last' = IF inserting
                                 THEN Called("insert_messages", session_id,
                                             IF mfail = <<>> THEN "Ok" ELSE "Err")
                                 ELSE UpsertCalled(probe, ref, metadata, fail)
                      /\ run' = IF fail # "none" \/ mfail # <<>>
                                THEN [turn EXCEPT !.pc = "failed", !.error = "store",
                                                  !.metadata = metadata]
                                ELSE [turn EXCEPT !.metadata = metadata,
                                                  !.j = IF run.j < Len(run.refs)
                                                        THEN run.j + 1 ELSE run.j,
                                                  !.pc = IF run.j < Len(run.refs)
                                                         THEN "session" ELSE "mark"]
    /\ UNCHANGED <<project_paths, project_identifiers, probe_sources, writers, source, db, config>>

\* line 71: update_probe_indexed(probe.id())?
RunMarkIndexed ==
    /\ run.pc = "mark"
    /\ \E ok \in BOOLEAN :
           LET probe == run.probes[run.i]
           IN  IF ok
               THEN /\ probe_sources' = [probe_sources EXCEPT ![probe].last_indexed = "now"]
                    /\ run' = IF run.i < Len(run.probes)
                              THEN [run EXCEPT !.pc = "probe", !.i = run.i + 1,
                                               !.refs = <<>>, !.j = 0]
                              ELSE [run EXCEPT !.pc = "done"]
               ELSE /\ UNCHANGED probe_sources
                    /\ run' = [run EXCEPT !.pc = "failed", !.error = "store"]
    /\ UNCHANGED <<sessions, messages, projects, project_paths, project_identifiers,
                   last, writers, source, db, config>>

NextRun ==
    \/ RunStart
    \/ RunProbe
    \/ RunSession
    \/ RunMarkIndexed

SpecRun == Init /\ [][NextRun]_vars
\* the rows insert_messages writes for a sequence of extracted messages
RowsOf(session_id, msgs) == [i \in 1..Len(msgs) |-> MessageRow(session_id, msgs[i])]

\* C4: when a run re-extracts a session that is already stored, the session's
\* message rows afterwards are exactly the rows of the latest extraction and
\* its message_count is the number of those rows.  The code skips
\* insert_messages for an extraction without messages, so the rows of the
\* earlier extraction stay.
C4_ReextractionReplacesMessages ==
    [][(run.pc = "session" /\ run'.pc \in {"session", "mark"} /\ run'.existed)
        => /\ MessagesOf(messages', run'.session_id)
                = RowsOf(run'.session_id, run'.metadata.messages)
           /\ sessions'[run'.session_id].message_count
                = Len(MessagesOf(messages', run'.session_id))]_vars

\* C7: a run that extract_metadata failed in has still stored every other
\* discovered session of every available probe and marked every available
\* probe as indexed.  The code returns the error from run at once.
C7_ExtractFailureSkipsOneSession ==
    (run.pc = "failed" /\ run.error = "extract")
        => \A k \in 1..Len(run.probes) :
               LET probe == run.probes[k]
                   refs == Discovered(probe)
               IN  /\ probe \in DOMAIN probe_sources
                   /\ probe_sources[probe].last_indexed # None
                   /\ \A n \in 1..Len(refs) :
                          SessionId(probe, refs[n]) # run.session_id
                              => SessionId(probe, refs[n]) \in DOMAIN sessions

\* C10: in every state of a run, between two turns of its loop and after a
\* failed store call, a session that has message rows has its own row, and a
\* stored session's message_count is the number of its message rows.
C10_NoPartialSession ==
    \A session_id \in DOMAIN sessions \cup DOMAIN messages :
        /\ MessagesOf(messages, session_id) # <<>> => session_id \in DOMAIN sessions
        /\ session_id \in DOMAIN sessions
               => sessions[session_id].message_count
                      = Len(MessagesOf(messages, session_id))

(***************************************************************************)
(* Two writers: two connections to one store file, each inside            *)
(* upsert_session for a session that is not stored yet.  No statement of  *)
(* upsert_session or compute_short_hash opens a transaction, so every SQL *)
(* statement commits on its own and the statements of the two connections *)
(* interleave.  A writer keeps what its statements returned in locals.    *)
(***************************************************************************)
\* sessions of two probes whose external ids share the base abcdef12
WriterKeys ==
    {[probe |-> p, id |-> e] : p \in {RegisteredProbes[1], RegisteredProbes[2]},
                               e \in {"agent-abcdef1234", "abcdef125678"}}

WriterMetadata(key) ==
    Metadata(key.id, CHOOSE x \in Extractions : x.title = "t1", None, None)

WriterSessionId(key) == SessionId(key.probe, SessionRefOf(key.id))

\* the locals of upsert_session and compute_short_hash at entry
WriterLocals(key) ==
    [pc |-> "lookup", key |-> key, existing_count |-> 0, max_suffix |-> <<>>,
     short_hash |-> None, renamed |-> FALSE]

\* sessions stored by earlier, sequential runs
WriterSeed ==
    /\ writers = NoWriters
    /\ \E key \in WriterKeys :
           /\ WriterSessionId(key) \notin DOMAIN sessions
           /\ UpsertSession(key.probe, SessionRefOf(key.id), WriterMetadata(key), "none")
    /\ UNCHANGED <<run, writers, source, db, config>>

\* both connections enter upsert_session, each for a session not stored yet
WritersOpen ==
    /\ writers = NoWriters
    /\ \E k1, k2 \in WriterKeys :
           /\ k1 # k2
           /\ WriterSessionId(k1) \notin DOMAIN sessions
           /\ WriterSessionId(k2) \notin DOMAIN sessions
           /\ writers' = <<WriterLocals(k1), WriterLocals(k2)>>
    /\ UNCHANGED <<sessions, messages, projects, project_paths, project_identifiers,
                   probe_sources, last, run, source, db, config>>

\* lines 241-248: SELECT short_hash FROM sessions WHERE id = ?
WriterLookup(w) ==
    /\ writers # NoWriters
    /\ writers[w].pc = "lookup"
    /\ LET session_id == WriterSessionId(writers[w].key)
       IN  writers' = IF session_id \in DOMAIN sessions
                      THEN [writers EXCEPT ![w].short_hash = sessions[session_id].short_hash,
                                           ![w].pc = "insert"]
                      ELSE [writers EXCEPT ![w].pc = "count"]
    /\ UNCHANGED <<sessions, messages, projects, project_paths, project_identifiers,
                   probe_sources, last, run, source, db, config>>

\* lines 184-192: SELECT COUNT(*) ...; the bare base when the count is 0
WriterCount(w) ==
    /\ writers # NoWriters
    /\ writers[w].pc = "count"
    /\ LET base_hash == BaseHash(writers[w].key.id)
           existing_count == ExistingCount(sessions, base_hash)
       IN  writers' = IF existing_count = 0
                      THEN [writers EXCEPT ![w].short_hash = base_hash,
                                           ![w].pc = "insert"]
                      ELSE [writers EXCEPT ![w].existing_count = existing_count,
                                           ![w].pc = "max"]
    /\ UNCHANGED <<sessions, messages, projects, project_paths, project_identifiers,
                   probe_sources, last, run, source, db, config>>

\* lines 194-206 and 227: SELECT MAX(...) ...; the returned hash depends on
\* nothing read later
WriterMax(w) ==
    /\ writers # NoWriters
    /\ writers[w].pc = "max"
    /\ LET base_hash == BaseHash(writers[w].key.id)
           max_suffix == MaxSuffix(sessions, base_hash)
           next_suffix == unwrap_or(max_suffix, 0) + 1
       IN  writers' = [writers EXCEPT
                          ![w].max_suffix = max_suffix,
                          ![w].short_hash = base_hash \o "-" \o ToString(next_suffix + 1),
                          ![w].pc = IF writers[w].existing_count = 1
                                    THEN "original" ELSE "insert"]
    /\ UNCHANGED <<sessions, messages, projects, project_paths, project_identifiers,
                   probe_sources, last, run, source, db, config>>

\* lines 210-217: SELECT short_hash LIKE '%-%' ...
WriterOriginal(w) ==
    /\ writers # NoWriters
    /\ writers[w].pc = "original"
    /\ writers' = [writers EXCEPT
                      ![w].pc = IF OriginalHasSuffix(sessions, BaseHash(writers[w].key.id))
                                THEN "insert" ELSE "rename"]
    /\ UNCHANGED <<sessions, messages, projects, project_paths, project_identifiers,
                   probe_sources, last, run, source, db, config>>

\* lines 219-224: UPDATE sessions SET short_hash = base-1 WHERE short_hash = base
WriterRename(w) ==
    /\ writers # NoWriters
    /\ writers[w].pc = "rename"
    /\ sessions' = RenameOriginal(sessions, BaseHash(writers[w].key.id))
    /\ writers' = [writers EXCEPT ![w].renamed = sessions' # sessions,
                                  ![w].pc = "insert"]
    /\ UNCHANGED <<messages, projects, project_paths, project_identifiers,
                   probe_sources, last, run, source, db, config>>

\* lines 251-299: auto_link_project (no query without a path or a remote),
\* the INSERT ... ON CONFLICT and touch_project
WriterInsert(w) ==
    /\ writers # NoWriters
    /\ writers[w].pc = "insert"
    /\ LET key == writers[w].key
           session == SessionRefOf(key.id)
           metadata == WriterMetadata(key)
           project_id == AutoLinkProject(metadata)
           new_row == NewSessionRow(key.probe, session, metadata,
                                    writers[w].short_hash, project_id)
       IN  /\ sessions' = InsertOrUpdateSession(sessions, WriterSessionId(key),
                                                new_row, metadata)
           /\ projects' = ProjectsAfterUpsert(projects, key.probe, session, metadata, "none")
           /\ last' = UpsertCalled(key.probe, session, metadata, "none")
    /\ writers' = [writers EXCEPT ![w].pc = "done"]
    /\ UNCHANGED <<messages, project_paths, project_identifiers, probe_sources, run, source, db, config>>

NextWriters ==
    \/ WriterSeed
    \/ WritersOpen
    \/ \E w \in 1..2 : WriterLookup(w)
    \/ \E w \in 1..2 : WriterCount(w)
    \/ \E w \in 1..2 : WriterMax(w)
    \/ \E w \in 1..2 : WriterOriginal(w)
    \/ \E w \in 1..2 : WriterRename(w)
    \/ \E w \in 1..2 : WriterInsert(w)

SpecWriters == Init /\ [][NextWriters]_vars

\* C6: once two concurrent upserts of new sessions with one base have both
\* returned, all stored short hashes are distinct and at most one of the two
\* renamed a bare-base session.  The statements of the two connections
\* interleave, so both can read the same count and the same maximum.
C6_ConcurrentUpsertsDistinctHashes ==
    (writers # NoWriters /\ \A w \in 1..2 : writers[w].pc = "done")
        => /\ \A a, b \in DOMAIN sessions :
                  a # b => sessions[a].short_hash # sessions[b].short_hash
           /\ ~(writers[1].renamed /\ writers[2].renamed)

(***************************************************************************)
(* Further identity claims, under Spec.                                    *)
(***************************************************************************)
\* C11: an upsert_session that returns a store error leaves every committed
\* session row as it was.  compute_short_hash commits its UPDATE before the
\* INSERT runs, so a rejected INSERT leaves the rename behind.
C11_FailedUpsertLeavesSessions ==
    [][(last'.op = "upsert_session" /\ last'.result = "Err")
          => sessions' = sessions]_vars

\* the stored sessions whose external id has the given base
WithBase(S, base_hash) == {id \in DOMAIN S : BaseHash(S[id].external_id) = base_hash}

\* C12: a new session whose base is held by k >= 2 stored sessions with the
\* hashes base-1 .. base-k gets base-(k+1), the next integer after the highest
\* suffix.  The code returns base-(max + 2).
C12_NextSuffixAfterHighest ==
    [][\A new \in DOMAIN sessions' \ DOMAIN sessions :
          LET base_hash == BaseHash(sessions'[new].external_id)
              same == WithBase(sessions, base_hash)
              k == Cardinality(same)
          IN  (k >= 2 /\ {sessions[id].short_hash : id \in same}
                            = {base_hash \o "-" \o ToString(n) : n \in 1..k})
                  => sessions'[new].short_hash = base_hash \o "-" \o ToString(k + 1)]_vars

(***************************************************************************)
(* Probes: the Claude Code session file.  A file is its bytes; a byte that *)
(* is not part of valid UTF-8 is written "#".  The JSON documents the      *)
(* model tells apart are written in one character of kind and a payload:   *)
(*   U<text>   a record with message.role "user" and string content        *)
(*   T         a record with message.role "user" whose content array has   *)
(*             no text item (a tool result)                                *)
(*   A<model>  a record with message.role "assistant" (model may be empty) *)
(*   Q         a record of type "queue-operation"                          *)
(* every other text is not valid JSON.  Inside <text> the character "|"    *)
(* stands for an escaped line feed of the JSON string.                     *)
(***************************************************************************)
\* BufRead::read_line from the 1-based position p: through the next line feed,
\* or to the end of the file; nothing at or beyond the end
RECURSIVE ReadLine(_, _)
ReadLine(bytes, p) ==
    IF p > Len(bytes) THEN ""
    ELSE IF Char(bytes, p) = "\n" THEN "\n"
    ELSE Char(bytes, p) \o ReadLine(bytes, p + 1)

\* a line as BufRead::lines yields it: the line feed removed, and a carriage
\* return before that line feed removed
StripEol(raw) ==
    LET n == Len(raw)
    IN  IF n >= 1 /\ Char(raw, n) = "\n"
        THEN IF n >= 2 /\ Char(raw, n - 1) = "\r"
             THEN SubSeq(raw, 1, n - 2) ELSE SubSeq(raw, 1, n - 1)
        ELSE raw

\* the raw lines of a file from position p on, terminators included
RECURSIVE RawLines(_, _)
RawLines(bytes, p) ==
    IF p > Len(bytes) THEN <<>>
    ELSE LET raw == ReadLine(bytes, p)
         IN  <<raw>> \o RawLines(bytes, p + Len(raw))

RECURSIVE Contains(_, _)
Contains(s, c) ==
    IF s = "" THEN FALSE ELSE Char(s, 1) = c \/ Contains(Rest(s), c)

\* String::from_utf8 succeeds
ValidUtf8(s) == ~Contains(s, "#")

\* str::trim().is_empty()
RECURSIVE IsBlank(_)
IsBlank(s) ==
    IF s = "" THEN TRUE ELSE Char(s, 1) \in {" ", "\r"} /\ IsBlank(Rest(s))

\* serde_json::from_str::<Value>(line): <<record>>, or <<>> for Err
ParseLine(line) ==
    IF line = "" THEN <<>>
    ELSE LET kind == Char(line, 1)
             payload == Rest(line)
         IN  IF kind = "U" THEN <<[role |-> "user", text |-> <<payload>>, model |-> <<>>]>>
             ELSE IF kind = "T" /\ payload = ""
                  THEN <<[role |-> "user", text |-> <<>>, model |-> <<>>]>>
             ELSE IF kind = "A"
                  THEN <<[role |-> "assistant", text |-> <<>>,
                          model |-> IF payload = "" THEN <<>> ELSE <<payload>>]>>
             ELSE IF kind = "Q" /\ payload = ""
                  THEN <<[role |-> "queue-operation", text |-> <<>>, model |-> <<>>]>>
             ELSE <<>>

\* ContentRef::jsonl and ContentRef::json_file
ContentRefJsonl(source_path, byte_offset, line_number) ==
    [source_path |-> source_path, byte_offset |-> <<byte_offset>>,
     line_number |-> <<line_number>>, content_path |-> <<>>]

ContentRefJsonFile(source_path, content_path) ==
    [source_path |-> source_path, byte_offset |-> <<>>,
     line_number |-> <<>>, content_path |-> <<content_path>>]

Ok(value) == [ok |-> TRUE, value |-> value]

Err(what) == [ok |-> FALSE, value |-> what]

ClaudeSessionPath == "/claude/p/agent-abcdef1234.jsonl"

\* ClaudeCodeProbe::get_content: File::open, seek to byte_offset (0 when the
\* reference has none), read_line.  A seek beyond the end of a file succeeds.
ClaudeGetContent(file, reference) ==
    IF file = <<>> THEN Err("open")
    ELSE LET byte_offset == unwrap_or(reference.byte_offset, 0)
             line == ReadLine(file[1], byte_offset + 1)
         IN  IF ValidUtf8(line) THEN Ok(line) ELSE Err("read")

TitleLimit == 100

TitleKeep == 97

\* str::lines().next().unwrap_or(text) on the content of a JSON string
RECURSIVE FirstLine(_)
FirstLine(text) ==
    IF text = "" \/ Char(text, 1) = "|" THEN ""
    ELSE Char(text, 1) \o FirstLine(Rest(text))

\* truncate_title (claudecode.rs)
truncate_title(text) ==
    LET first_line == FirstLine(text)
    IN  IF Len(first_line) > TitleLimit
        THEN SubSeq(first_line, 1, TitleKeep) \o "..."
        ELSE first_line

\* *counts.entry(key).or_insert(0) += 1
Counted(counts, key) ==
    [k \in DOMAIN counts \cup {key} |->
        IF k = key THEN (IF key \in DOMAIN counts THEN counts[key] ELSE 0) + 1
        ELSE counts[k]]

\* counts.into_iter().max_by_key(|(_, count)| *count).map(|(k, _)| k): a
\* HashMap iterates in an order that its random hasher fixes, and max_by_key
\* keeps the last maximum it meets, so each key with the highest count is a
\* possible outcome
MaxByKey(counts) ==
    IF DOMAIN counts = {} THEN {<<>>}
    ELSE {<<k>> : k \in {k \in DOMAIN counts : \A j \in DOMAIN counts : counts[j] <= counts[k]}}

\* the locals of ClaudeCodeProbe::extract_metadata before the first line
ClaudeLocals ==
    [messages |-> <<>>, title |-> <<>>, provider_counts |-> <<>>, model_counts |-> <<>>,
     byte_offset |-> 0, line_number |-> 0]

\* the loop over reader.lines() from the k-th line on (claudecode.rs 130-284)
RECURSIVE ClaudeScan(_, _, _, _)
ClaudeScan(source_path, raws, k, acc) ==
    IF k > Len(raws) THEN Ok(acc)
    ELSE IF ~ValidUtf8(raws[k]) THEN Err("read")
    ELSE LET line == StripEol(raws[k])
             json == ParseLine(line)
             counted == [acc EXCEPT !.line_number = acc.line_number + 1,
                                    !.byte_offset = acc.byte_offset + Len(line) + 1]
         IN  IF IsBlank(line) \/ json = <<>> \/ json[1].role = "queue-operation"
             THEN ClaudeScan(source_path, raws, k + 1, counted)
             ELSE LET record == json[1]
                      message == [uuid |-> <<>>, role |-> record.role,
                                  provider_id |-> <<"anthropic">>, model |-> record.model,
                                  content_ref |-> ContentRefJsonl(source_path, acc.byte_offset,
                                                                  counted.line_number)]
                  IN  ClaudeScan(source_path, raws, k + 1,
                        [counted EXCEPT
                           !.messages = Append(acc.messages, message),
                           !.title = IF acc.title = <<>> /\ record.role = "user"
                                        /\ record.text # <<>>
                                     THEN <<truncate_title(record.text[1])>>
                                     ELSE acc.title,
                           !.model_counts = IF record.model = <<>> THEN acc.model_counts
                                            ELSE Counted(acc.model_counts, record.model[1]),
                           !.provider_counts = IF record.model = <<>> THEN acc.provider_counts
                                               ELSE Counted(acc.provider_counts, "anthropic")])

\* ClaudeCodeProbe::extract_metadata: the results the call can return for a
\* file (<<>> when it does not exist, else <<bytes>>)
ClaudeExtractMetadata(session, file) ==
    IF file = <<>> THEN {Err("open")}
    ELSE LET scanned == ClaudeScan(session.source_path, RawLines(file[1], 1), 1, ClaudeLocals)
         IN  IF ~scanned.ok THEN {scanned}
             ELSE {Ok([external_id |-> session.id,
                       title |-> scanned.value.title,
                       primary_provider |-> primary_provider,
                       primary_model |-> primary_model,
                       messages |-> scanned.value.messages]) :
                       primary_provider \in MaxByKey(scanned.value.provider_counts),
                       primary_model \in MaxByKey(scanned.value.model_counts)}

(***************************************************************************)
(* Probes: OpenCode (one JSON file per session, per message and per part)  *)
(* and Zed (one JSON document per thread).  A file is a record: bytes says *)
(* whether it deserializes ("ok"), is not the expected JSON ("bad") or is  *)
(* not UTF-8 ("#"); the other fields are what deserializing it yields.     *)
(***************************************************************************)
\* the loop over the part files of one message (opencode.rs 322-377): the
\* first text part seen so far, or Err when a file cannot be read
RECURSIVE OpenCodeParts(_, _, _)
OpenCodeParts(parts, k, first_text_part_path) ==
    IF k > Len(parts) THEN Ok(first_text_part_path)
    ELSE IF parts[k].bytes = "#" THEN Err("read")
    ELSE IF parts[k].bytes = "ok" /\ parts[k].part_type = "text"
              /\ first_text_part_path = <<>>
         THEN OpenCodeParts(parts, k + 1, <<parts[k].path>>)
         ELSE OpenCodeParts(parts, k + 1, first_text_part_path)

OpenCodeLocals == [messages |-> <<>>, provider_counts |-> <<>>, model_counts |-> <<>>]

\* the loop over the sorted message files (opencode.rs 285-398)
RECURSIVE OpenCodeScan(_, _, _)
OpenCodeScan(msg_files, k, acc) ==
    IF k > Len(msg_files) THEN Ok(acc)
    ELSE LET msg == msg_files[k]
         IN  IF msg.bytes = "#" THEN Err("read")
             ELSE IF msg.bytes # "ok" THEN OpenCodeScan(msg_files, k + 1, acc)
             ELSE LET parts == OpenCodeParts(msg.parts, 1, <<>>)
                      role == IF msg.role # <<>> THEN msg.role[1]
                              ELSE IF msg.provider_id # <<>> THEN "assistant" ELSE "user"
                      message ==
                          [uuid |-> <<msg.id>>, role |-> role,
                           provider_id |-> msg.provider_id, model |-> msg.model_id,
                           content_ref |-> ContentRefJsonFile(msg.path,
                                               unwrap_or(parts.value, msg.path))]
                  IN  IF ~parts.ok THEN parts
                      ELSE OpenCodeScan(msg_files, k + 1,
                             [messages |-> Append(acc.messages, message),
                              provider_counts |->
                                  IF msg.provider_id = <<>> THEN acc.provider_counts
                                  ELSE Counted(acc.provider_counts, msg.provider_id[1]),
                              model_counts |->
                                  IF msg.model_id = <<>> THEN acc.model_counts
                                  ELSE Counted(acc.model_counts, msg.model_id[1])])

\* OpenCodeProbe::extract_metadata: the results the call can return
OpenCodeExtractMetadata(session, data) ==
    IF data.bytes # "ok" THEN {Err("session")}
    ELSE LET scanned == OpenCodeScan(data.msg_files, 1, OpenCodeLocals)
         IN  IF ~scanned.ok THEN {scanned}
             ELSE {Ok([external_id |-> session.id,
                       title |-> data.title,
                       primary_provider |-> primary_provider,
                       primary_model |-> primary_model,
                       messages |-> scanned.value.messages]) :
                       primary_provider \in MaxByKey(scanned.value.provider_counts),
                       primary_model \in MaxByKey(scanned.value.model_counts)}

ZedDbPath == "/zed/threads/threads.db"

\* the loop over thread.messages (zed.rs 261-335); idx counts from 0
RECURSIVE ZedMessages(_, _, _, _)
ZedMessages(thread_messages, k, session_provider, session_model) ==
    IF k > Len(thread_messages) THEN <<>>
    ELSE LET msg == thread_messages[k]
             content_ref == [source_path |-> ZedDbPath, byte_offset |-> <<>>,
                             line_number |-> <<k - 1>>, content_path |-> <<>>]
             rest == ZedMessages(thread_messages, k + 1, session_provider, session_model)
         IN  IF msg.kind = "User"
             THEN <<[uuid |-> msg.id, role |-> "user", provider_id |-> <<>>,
                     model |-> <<>>, content_ref |-> content_ref]>> \o rest
             ELSE IF msg.kind = "Agent"
             THEN <<[uuid |-> <<>>, role |-> "assistant", provider_id |-> session_provider,
                     model |-> session_model, content_ref |-> content_ref]>> \o rest
             ELSE rest

\* Option::or
or(a, b) == IF a # <<>> THEN a ELSE b

\* ZedProbe::extract_metadata: the results the call can return for the row
\* of the threads table (summary, decoded data)
ZedExtractMetadata(session, row) ==
    IF row.bytes # "ok" THEN {Err("thread")}
    ELSE LET thread == row.thread
             session_provider == thread.provider
             session_model == thread.model
             provider_counts == IF session_provider = <<>> THEN <<>>
                                ELSE Counted(<<>>, session_provider[1])
             model_counts == IF session_model = <<>> THEN <<>>
                             ELSE Counted(<<>>, session_model[1])
             titled == or(thread.title, <<row.summary>>)
         IN  {Ok([external_id |-> session.id,
                  title |-> IF titled[1] = "" THEN <<>> ELSE titled,
                  primary_provider |-> or(primary_provider, session_provider),
                  primary_model |-> or(primary_model, session_model),
                  messages |-> ZedMessages(thread.messages, 1, session_provider,
                                           session_model)]) :
                  primary_provider \in MaxByKey(provider_counts),
                  primary_model \in MaxByKey(model_counts)}

(***************************************************************************)
(* The probes at work: tools are installed and removed, the Claude Code    *)
(* session file is written, rotated, truncated and deleted by its tool,    *)
(* and the probe methods are called on what is there.                      *)
(***************************************************************************)
ClaudeSession == [id |-> "agent-abcdef1234", source_path |-> ClaudeSessionPath]

\* contents the session file can have
ClaudeFiles ==
    {"Uhi\nAm1\n",
     "Uhi\n{x\nAm1\nAm2\n",
     "Uhi\r\n{x\r\nAm1\n",
     "Uhi\n#\nAm1\n",
     "T\nUa|b\n \nQ\nAm1",
     "Am2\n",
     ""}

OpenCodeSession == [id |-> "ses_abc", source_path |-> "/opencode/session/p/ses_abc.json"]

MsgFile(n, bytes, role, provider_id, model_id, text, parts) ==
    [path |-> "/opencode/message/ses_abc/msg_" \o n \o ".json", bytes |-> bytes,
     id |-> "msg_" \o n, role |-> role, provider_id |-> provider_id,
     model_id |-> model_id, text |-> text, parts |-> parts]

PartFile(n, bytes, part_type) ==
    [path |-> "/opencode/part/prt_" \o n \o ".json", bytes |-> bytes,
     part_type |-> part_type]

\* session files with their message and part files, in file name order
OpenCodeData ==
    {[bytes |-> "ok", title |-> <<"Fixing the build">>,
      msg_files |-> <<MsgFile("1", "ok", <<"user">>, <<>>, <<>>, "fix it", <<PartFile("1", "ok", "text")>>),
                      MsgFile("2", "ok", <<>>, <<"anthropic">>, <<"m1">>, "", <<PartFile("2", "ok", "tool")>>),
                      MsgFile("3", "ok", <<>>, <<"openai">>, <<"m2">>, "", <<>>)>>],
     [bytes |-> "ok", title |-> <<>>,
      msg_files |-> <<MsgFile("1", "ok", <<>>, <<>>, <<>>, "hi", <<PartFile("1", "bad", "text"),
                                                                 PartFile("2", "ok", "text")>>),
                      MsgFile("2", "bad", <<>>, <<>>, <<>>, "", <<>>),
                      MsgFile("3", "ok", <<"assistant">>, <<"anthropic">>, <<"m1">>, "", <<>>)>>],
     [bytes |-> "ok", title |-> <<"t">>,
      msg_files |-> <<MsgFile("1", "ok", <<"user">>, <<>>, <<>>, "hi", <<>>),
                      MsgFile("2", "#", <<>>, <<>>, <<>>, "", <<>>),
                      MsgFile("3", "ok", <<"assistant">>, <<"anthropic">>, <<"m1">>, "", <<>>)>>],
     [bytes |-> "bad", title |-> <<>>, msg_files |-> <<>>]}

ZedSession == [id |-> "thread-1", source_path |-> ZedDbPath]

ZedMsg(kind, id, text) == [kind |-> kind, id |-> id, text |-> text]

\* rows of Zed's threads table
ZedRows ==
    {[bytes |-> "ok", summary |-> "Summary",
      thread |-> [title |-> <<"Refactor">>, provider |-> <<"anthropic">>, model |-> <<"m1">>,
                  messages |-> <<ZedMsg("User", <<"u1">>, "please refactor"),
                                 ZedMsg("Agent", <<>>, "done"),
                                 ZedMsg("Resume", <<>>, ""),
                                 ZedMsg("User", <<>>, "thanks")>>]],
     [bytes |-> "ok", summary |-> "",
      thread |-> [title |-> <<>>, provider |-> <<>>, model |-> <<>>, messages |-> <<>>]],
     [bytes |-> "bad", summary |-> "", thread |-> <<>>]}

\* is_available of the three probes: the root (for OpenCode the session
\* directory under it) exists
IsAvailable(probe, roots) == probe \in roots

\* discover of the three probes: no root, no sessions, no error
Discover(probe, roots) ==
    IF ~IsAvailable(probe, roots) THEN Ok(<<>>) ELSE Ok(Discovered(probe))

CallOf(op, probe, arg, result) == [op |-> op, probe |-> probe, arg |-> arg, result |-> result]

\* a tool is installed or removed; removing Claude Code removes its file
SourceInstall ==
    /\ \E probe \in {RegisteredProbes[k] : k \in 1..Len(RegisteredProbes)} :
           source' = [source EXCEPT
                        !.roots = IF probe \in source.roots THEN source.roots \ {probe}
                                  ELSE source.roots \cup {probe},
                        !.file = IF probe = RegisteredProbes[1] THEN <<>> ELSE source.file]
    /\ UNCHANGED <<sessions, messages, projects, project_paths, project_identifiers,
                   probe_sources, last, run, writers, db, config>>

\* Claude Code appends to, rotates, truncates or deletes the session file
SourceWrite ==
    /\ RegisteredProbes[1] \in source.roots
    /\ \E file \in {<<>>} \cup {<<bytes>> : bytes \in ClaudeFiles} :
           /\ file # source.file
           /\ source' = [source EXCEPT !.file = file]
    /\ UNCHANGED <<sessions, messages, projects, project_paths, project_identifiers,
                   probe_sources, last, run, writers, db, config>>

ProbeDiscover ==
    /\ \E probe \in {RegisteredProbes[k] : k \in 1..Len(RegisteredProbes)} :
           source' = [source EXCEPT
                        !.call = CallOf("discover", probe, source.roots,
                                        Discover(probe, source.roots))]
    /\ UNCHANGED <<sessions, messages, projects, project_paths, project_identifiers,
                   probe_sources, last, run, writers, db, config>>

ProbeAvailable ==
    /\ source' = [source EXCEPT
                    !.call = CallOf("available_probes", None, source.roots,
                                    Ok(AvailableProbes(source.roots)))]
    /\ UNCHANGED <<sessions, messages, projects, project_paths, project_identifiers,
                   probe_sources, last, run, writers, db, config>>

\* extract_metadata on the Claude Code session file; the message references
\* of a successful extraction are what the index holds from then on
ClaudeExtract ==
    /\ \E result \in ClaudeExtractMetadata(ClaudeSession, source.file) :
           source' = [source EXCEPT
                        !.call = CallOf("extract_metadata", RegisteredProbes[1],
                                        source.file, result),
                        !.indexed = IF result.ok THEN result.value.messages
                                    ELSE source.indexed]
    /\ UNCHANGED <<sessions, messages, projects, project_paths, project_identifiers,
                   probe_sources, last, run, writers, db, config>>

\* cli/read.rs: get_content on a reference the index holds
ClaudeRead ==
    /\ \E k \in 1..Len(source.indexed) :
           LET reference == source.indexed[k].content_ref
           IN  source' = [source EXCEPT
                            !.call = CallOf("get_content", RegisteredProbes[1],
                                            [file |-> source.file, reference |-> reference],
                                            ClaudeGetContent(source.file, reference))]
    /\ UNCHANGED <<sessions, messages, projects, project_paths, project_identifiers,
                   probe_sources, last, run, writers, db, config>>

OpenCodeExtract ==
    /\ \E data \in OpenCodeData :
       \E result \in OpenCodeExtractMetadata(OpenCodeSession, data) :
           source' = [source EXCEPT
                        !.call = CallOf("extract_metadata", RegisteredProbes[2], data, result)]
    /\ UNCHANGED <<sessions, messages, projects, project_paths, project_identifiers,
                   probe_sources, last, run, writers, db, config>>

ZedExtract ==
    /\ \E row \in ZedRows :
       \E result \in ZedExtractMetadata(ZedSession, row) :
           source' = [source EXCEPT
                        !.call = CallOf("extract_metadata", RegisteredProbes[3], row, result)]
    /\ UNCHANGED <<sessions, messages, projects, project_paths, project_identifiers,
                   probe_sources, last, run, writers, db, config>>

\* a row of the threads table with its id
ZedRow(id, thread_messages) ==
    [id |-> id, bytes |-> "ok", summary |-> "Summary",
     thread |-> [title |-> <<>>, provider |-> <<"anthropic">>, model |-> <<"m1">>,
                 messages |-> thread_messages]]

\* contents of the threads table, in rowid order: two threads in either
\* order, the second thread cut back to its first message, one thread alone
ZedTables ==
    LET t0 == ZedRow("thread-0", <<ZedMsg("User", <<"u0">>, "alpha"),
                                   ZedMsg("Agent", <<>>, "beta")>>)
        t1 == ZedRow("thread-1", <<ZedMsg("User", <<"u1">>, "please refactor"),
                                   ZedMsg("Agent", <<>>, "done"),
                                   ZedMsg("Resume", <<>>, ""),
                                   ZedMsg("User", <<>>, "thanks")>>)
        cut == ZedRow("thread-1", <<ZedMsg("User", <<"u1">>, "please refactor")>>)
    IN  {<<t0, t1>>, <<t1, t0>>, <<t0, cut>>, <<t1>>}

\* SELECT .. FROM threads WHERE id = ?
ZedRowOf(table, id) == SelectSeq(table, LAMBDA row : row.id = id)

\* ZedProbe::get_content: the thread id is computed and not used; the row is
\* the one `SELECT data_type, data FROM threads LIMIT 1` returns, the first
\* of the table; messages.get(line_number) of that row, and the empty string
\* when there is no such message or no line_number
ZedGetContent(table, thread_id, reference) ==
    IF table = <<>> THEN Err("thread")
    ELSE IF table[1].bytes # "ok" THEN Err("thread")
    ELSE LET thread_messages == table[1].thread.messages
             n == unwrap_or(reference.line_number, Len(thread_messages))
         IN  IF n < Len(thread_messages)
             THEN Ok(IF thread_messages[n + 1].kind = "Resume" THEN "[Resume]"
                     ELSE thread_messages[n + 1].text)
             ELSE Ok("")

\* cli/read.rs: a thread of the table was extracted, and get_content is
\* called on one of its references when the table is as it was or has changed
ZedRead ==
    /\ \E indexed \in ZedTables, table \in ZedTables :
       \E row \in {indexed[k] : k \in 1..Len(indexed)} :
       \E extracted \in ZedExtractMetadata([id |-> row.id, source_path |-> ZedDbPath], row) :
       \E k \in 1..Len(extracted.value.messages) :
           LET reference == extracted.value.messages[k].content_ref
           IN  /\ ZedRowOf(table, row.id) # <<>>
               /\ source' = [source EXCEPT
                                !.call = CallOf("get_content", RegisteredProbes[3],
                                                [table |-> table, thread_id |-> row.id,
                                                 reference |-> reference],
                                                ZedGetContent(table, row.id, reference))]
    /\ UNCHANGED <<sessions, messages, projects, project_paths, project_identifiers,
                   probe_sources, last, run, writers, db, config>>

NextProbe ==
    \/ ZedRead
    \/ SourceInstall
    \/ SourceWrite
    \/ ProbeDiscover
    \/ ProbeAvailable
    \/ ClaudeExtract
    \/ ClaudeRead
    \/ OpenCodeExtract
    \/ ZedExtract

SpecProbe == Init /\ [][NextProbe]_vars

(***************************************************************************)
(* Claims about the probes, under SpecProbe.                               *)
(***************************************************************************)
\* C13: get_content on a line-addressed reference whose byte_offset is at or
\* beyond the end of the file, or whose file is gone, returns an error.  The
\* code seeks beyond the end without error and returns the empty line read.
C13_StaleReferenceFails ==
    LET call == source.call
    IN  (/\ call.op = "get_content" /\ call.probe = RegisteredProbes[1]
         /\ \/ call.arg.file = <<>>
            \/ unwrap_or(call.arg.reference.byte_offset, 0) >= Len(call.arg.file[1]))
            => ~call.result.ok

\* the raw lines of a session file that hold a message record
MessageLines(bytes) ==
    SelectSeq(RawLines(bytes, 1),
              LAMBDA raw : /\ ValidUtf8(raw)
                           /\ ParseLine(StripEol(raw)) # <<>>
                           /\ ParseLine(StripEol(raw))[1].role # "queue-operation")

\* C14: extract_metadata succeeds on a session that holds a malformed record
\* and returns every well-formed record in source order; in a session file
\* each returned reference addresses the line of its own record.  The code
\* returns an error for a record that is not UTF-8, and counts one byte for
\* a line end of two.
C14_MalformedRecordSkipped ==
    LET call == source.call
    IN  /\ (call.op = "extract_metadata" /\ call.probe = RegisteredProbes[1]
              /\ call.arg # <<>>)
            => /\ call.result.ok
               /\ LET expected == MessageLines(call.arg[1])
                      got == call.result.value.messages
                  IN  /\ Len(got) = Len(expected)
                      /\ \A k \in 1..Len(got) :
                            /\ ClaudeGetContent(call.arg, got[k].content_ref) = Ok(expected[k])
                            /\ RawLines(call.arg[1], 1)[got[k].content_ref.line_number[1]]
                                  = expected[k]
        /\ (call.op = "extract_metadata" /\ call.probe = RegisteredProbes[2]
              /\ call.arg.bytes = "ok")
            => /\ call.result.ok
               /\ LET expected == SelectSeq(call.arg.msg_files, LAMBDA f : f.bytes = "ok")
                      got == call.result.value.messages
                  IN  /\ Len(got) = Len(expected)
                      /\ \A k \in 1..Len(got) : got[k].uuid = <<expected[k].id>>

\* the value with the highest count in a sequence of optional values, the
\* first seen among those with the highest count; <<>> when there is none
FirstSeenMax(values) ==
    LET Count(v) == Cardinality({k \in 1..Len(values) : values[k] = v})
        First(v) == CHOOSE k \in 1..Len(values) :
                        values[k] = v /\ \A j \in 1..(k - 1) : values[j] # v
        seen == {values[k] : k \in 1..Len(values)} \ {<<>>}
    IN  IF seen = {} THEN <<>>
        ELSE CHOOSE v \in seen :
                 \A w \in seen : \/ Count(w) < Count(v)
                                 \/ Count(w) = Count(v) /\ First(v) <= First(w)

\* C16: the primary provider and model of an extraction are the most frequent
\* values over the session's messages, the first seen on a tie.  The code
\* takes max_by_key over a HashMap, whose iteration order decides a tie and
\* differs from one extraction to the next.
C16_PrimaryIsFirstSeenMax ==
    LET call == source.call
    IN  (call.op = "extract_metadata" /\ call.result.ok)
            => LET got == call.result.value
                   providers == [k \in 1..Len(got.messages) |-> got.messages[k].provider_id]
                   models == [k \in 1..Len(got.messages) |-> got.messages[k].model]
               IN  /\ got.primary_model = FirstSeenMax(models)
                   /\ (\E k \in 1..Len(models) : models[k] # <<>>)
                         => got.primary_provider = FirstSeenMax(providers)

\* C15: discover of a probe whose root does not exist returns no session and
\* no error, and available_probes returns exactly the registered probes that
\* are available, in registration order.
C15_MissingRootIsEmptyNotError ==
    LET call == source.call
    IN  /\ (call.op = "discover" /\ call.probe \notin call.arg)
            => call.result = Ok(<<>>)
        /\ call.op = "available_probes"
            => /\ call.result.ok
               /\ \A probe \in {RegisteredProbes[k] : k \in 1..Len(RegisteredProbes)} :
                      (\E k \in 1..Len(call.result.value) : call.result.value[k] = probe)
                          <=> /\ \E k \in 1..Len(Registry) : Registry[k] = probe
                              /\ IsAvailable(probe, call.arg)
               /\ \A j, k \in 1..Len(call.result.value) :
                      j < k => \E m, n \in 1..Len(Registry) :
                                   /\ m < n
                                   /\ Registry[m] = call.result.value[j]
                                   /\ Registry[n] = call.result.value[k]

\* discover was called on a probe whose root is missing while another
\* probe's root exists
C15_DiscoveredWithoutRoot ==
    /\ source.call.op = "discover"
    /\ source.call.probe \notin source.call.arg
    /\ source.call.arg # {}

\* the text of the first user-authored message of what extract_metadata
\* was given, <<>> when there is none
FirstUserText(probe, arg) ==
    IF probe = RegisteredProbes[1]
    THEN LET users == SelectSeq(MessageLines(arg[1]),
                                LAMBDA raw : ParseLine(StripEol(raw))[1].text # <<>>)
         IN  IF users = <<>> THEN <<>> ELSE ParseLine(StripEol(users[1]))[1].text
    ELSE IF probe = RegisteredProbes[2]
    THEN LET users == SelectSeq(arg.msg_files,
                                LAMBDA f : f.bytes = "ok" /\ f.role = <<"user">>)
         IN  IF users = <<>> THEN <<>> ELSE <<users[1].text>>
    ELSE LET users == SelectSeq(arg.thread.messages, LAMBDA m : m.kind = "User")
         IN  IF users = <<>> THEN <<>> ELSE <<users[1].text>>

\* C17: the title an extraction returns is the first line of the first
\* user-authored message, cut to 100 characters, and absent without a user
\* message.  OpenCode returns the title field of the session file and Zed
\* the thread's title or the summary column.
C17_TitleIsFirstUserLine ==
    LET call == source.call
    IN  (call.op = "extract_metadata" /\ call.result.ok)
            => LET text == FirstUserText(call.probe, call.arg)
               IN  call.result.value.title
                       = IF text = <<>> THEN <<>> ELSE <<truncate_title(text[1])>>

\* C18: every content reference of an extraction is line-addressed
\* (byte_offset and line_number, no content_path) or file-addressed
\* (content_path).  Zed sets line_number alone.
C18_ContentRefShape ==
    LET call == source.call
    IN  (call.op = "extract_metadata" /\ call.result.ok)
            => \A k \in 1..Len(call.result.value.messages) :
                   LET ref == call.result.value.messages[k].content_ref
                   IN  \/ /\ ref.byte_offset # <<>>
                          /\ ref.line_number # <<>>
                          /\ ref.content_path = <<>>
                       \/ ref.content_path # <<>>

(***************************************************************************)
(* The schema's foreign keys: the store as MetadataStore::open opens it,   *)
(* the pipeline writing sessions with tool uses and token usage, and rows  *)
(* of sessions and projects deleted through that connection.               *)
(***************************************************************************)
\* the greatest rowid a messages or tool_uses row gets in the model
MaxRowid == 4

SchemaProbe == RegisteredProbes[1]

SchemaIds == {"agent-abcdef1234", "ses_abc"}

\* MessageMetadata with its tool_uses and token_usage
DetailedMessage(uuid, role, tool_uses, token_usage) ==
    [uuid |-> uuid, role |-> role, tool_uses |-> tool_uses, token_usage |-> token_usage]

\* a user message and an assistant message that used one tool and reports
\* its token usage
SchemaExtraction ==
    [title |-> "t1",
     messages |-> <<DetailedMessage("u1", "user", <<>>, <<>>),
                    DetailedMessage("u2", "assistant", <<"Bash">>,
                                    <<[input_tokens |-> 10, output_tokens |-> 20]>>)>>,
     last_timestamp |-> "ts2"]

\* the rowids of the messages of one session, in insertion order
MessageIdsOf(D, session_id) ==
    IF session_id \in DOMAIN D.message_ids THEN D.message_ids[session_id] ELSE <<>>

\* the rowids in use in messages
AllMessageIds(D) ==
    UNION {{D.message_ids[s][k] : k \in 1..Len(D.message_ids[s])} : s \in DOMAIN D.message_ids}

\* INTEGER PRIMARY KEY without AUTOINCREMENT: one more than the largest rowid
\* in the table, 1 in an empty table
NextRowid(used) == IF used = {} THEN 1 ELSE MaxOf(used) + 1

\* ON DELETE CASCADE of tool_uses.message_id and token_usage.message_id: the
\* rows left when the messages with the rowids in gone are deleted
ChildrenAfterDelete(rows, gone, foreign_keys) ==
    IF foreign_keys THEN {r \in rows : r.message_id \notin gone} ELSE rows

\* DELETE FROM messages WHERE session_id = ?
DbAfterDeleteMessages(D, session_id) ==
    LET gone == {MessageIdsOf(D, session_id)[k] : k \in 1..Len(MessageIdsOf(D, session_id))}
    IN  [D EXCEPT !.message_ids = [s \in DOMAIN D.message_ids \ {session_id} |->
                                      D.message_ids[s]],
                  !.tool_uses = ChildrenAfterDelete(D.tool_uses, gone, D.foreign_keys[1]),
                  !.token_usage = ChildrenAfterDelete(D.token_usage, gone, D.foreign_keys[1])]

\* INSERT INTO tool_uses for each tool use of one message
RECURSIVE InsertToolUses(_, _, _, _)
InsertToolUses(rows, msg_id, tool_uses, k) ==
    IF k > Len(tool_uses) THEN rows
    ELSE InsertToolUses(rows \cup {[id |-> NextRowid({r.id : r \in rows}),
                                    message_id |-> msg_id,
                                    tool_name |-> tool_uses[k]]},
                        msg_id, tool_uses, k + 1)

\* INSERT OR REPLACE INTO token_usage: message_id is the primary key
InsertOrReplaceUsage(rows, msg_id, token_usage) ==
    IF token_usage = <<>> THEN rows
    ELSE {r \in rows : r.message_id # msg_id}
             \cup {[message_id |-> msg_id,
                    input_tokens |-> token_usage[1].input_tokens,
                    output_tokens |-> token_usage[1].output_tokens]}

\* the loop of insert_messages from the k-th message on
RECURSIVE DbAfterInserts(_, _, _, _)
DbAfterInserts(D, session_id, msgs, k) ==
    IF k > Len(msgs) THEN D
    ELSE LET msg_id == NextRowid(AllMessageIds(D))
         IN  DbAfterInserts(
                 [D EXCEPT !.message_ids =
                               [s \in DOMAIN D.message_ids \cup {session_id} |->
                                   IF s = session_id
                                   THEN Append(MessageIdsOf(D, session_id), msg_id)
                                   ELSE D.message_ids[s]],
                           !.tool_uses = InsertToolUses(D.tool_uses, msg_id,
                                                        msgs[k].tool_uses, 1),
                           !.token_usage = InsertOrReplaceUsage(D.token_usage, msg_id,
                                                                msgs[k].token_usage)],
                 session_id, msgs, k + 1)

\* insert_messages, every statement succeeding
DbAfterInsertMessages(D, session_id, msgs) ==
    DbAfterInserts(DbAfterDeleteMessages(D, session_id), session_id, msgs, 1)

\* MetadataStore::open: Connection::open and the schema batch.  No statement
\* sets PRAGMA foreign_keys, so the connection enforces foreign keys exactly
\* when the SQLite library of the build enables them by default: either
\* build is possible
SchemaOpen ==
    /\ db.foreign_keys = <<>>
    /\ \E foreign_keys \in BOOLEAN : db' = [db EXCEPT !.foreign_keys = <<foreign_keys>>]
    /\ last' = Called("open", None, "Ok")
    /\ UNCHANGED <<sessions, messages, projects, project_paths, project_identifiers,
                   probe_sources, run, writers, source, config>>

\* cli/project.rs create, with a primary path
SchemaCreateProject ==
    /\ db.foreign_keys # <<>>
    /\ \E id \in ProjectIds :
        /\ id \notin DOMAIN projects
        /\ CreateProject(id, id, "code", ProjectPath)
    /\ UNCHANGED <<run, writers, source, db, config>>

\* cli/session.rs assign: an existing session and an existing project
SchemaAssign ==
    /\ db.foreign_keys # <<>>
    /\ \E id \in DOMAIN sessions, project_id \in DOMAIN projects :
        AssignSessionToProject(id, project_id)
    /\ UNCHANGED <<run, writers, source, db, config>>

\* assign_session_to_project(session_id, None), as a caller of the store makes it
SchemaAssignNone ==
    /\ db.foreign_keys # <<>>
    /\ \E id \in DOMAIN sessions : AssignSessionToProject(id, None)
    /\ UNCHANGED <<run, writers, source, db, config>>

\* cli/session.rs unassign: an existing session
SchemaUnassign ==
    /\ db.foreign_keys # <<>>
    /\ \E id \in DOMAIN sessions : UnassignSession(id)
    /\ UNCHANGED <<run, writers, source, db, config>>

\* the pipeline's turn for one session: ensure_probe_source, upsert_session
\* and insert_messages, every statement succeeding; last keeps the project
\* path extracted and the project auto_link_project found for it
SchemaStore ==
    /\ db.foreign_keys # <<>>
    /\ \E external_id \in SchemaIds, project_path \in {None, ProjectPath} :
        LET session == SessionRefOf(external_id)
            metadata == Metadata(external_id, SchemaExtraction, project_path, None)
            session_id == SessionId(SchemaProbe, session)
            after == DbAfterInsertMessages(db, session_id, metadata.messages)
        IN  /\ \A n \in AllMessageIds(after) \cup {r.id : r \in after.tool_uses} :
                   n <= MaxRowid
            /\ probe_sources' = EnsureProbeSource(probe_sources, SchemaProbe)
            /\ sessions' = SessionsAfterUpsert(sessions, SchemaProbe, session, metadata, "none")
            /\ projects' = ProjectsAfterUpsert(projects, SchemaProbe, session, metadata, "none")
            /\ messages' = MessagesAfterInsert(messages, session_id, metadata.messages, <<>>)
            /\ db' = after
            /\ last' = [Called("insert_messages", session_id, "Ok")
                            EXCEPT !.project_path = metadata.project_path,
                                   !.project_id = AutoLinkProject(metadata)]
    /\ UNCHANGED <<project_paths, project_identifiers, run, writers, source, config>>

\* DELETE FROM sessions WHERE id = ? on the store's connection.
\* messages.session_id is ON DELETE CASCADE, and so are tool_uses.message_id
\* and token_usage.message_id: the actions run when foreign keys are enforced
SchemaDeleteSession ==
    /\ db.foreign_keys # <<>>
    /\ \E id \in DOMAIN sessions :
        /\ sessions' = [s \in DOMAIN sessions \ {id} |-> sessions[s]]
        /\ messages' = IF db.foreign_keys[1] THEN DeleteMessagesOf(messages, id)
                       ELSE messages
        /\ db' = IF db.foreign_keys[1] THEN DbAfterDeleteMessages(db, id) ELSE db
        /\ last' = Called("delete_session", id, "Ok")
    /\ UNCHANGED <<projects, project_paths, project_identifiers, probe_sources,
                   run, writers, source, config>>

\* DELETE FROM projects WHERE id = ? on the store's connection.
\* sessions.project_id is ON DELETE SET NULL, project_paths.project_id and
\* project_identifiers.project_id are ON DELETE CASCADE
SchemaDeleteProject ==
    /\ db.foreign_keys # <<>>
    /\ \E id \in DOMAIN projects :
        /\ projects' = [p \in DOMAIN projects \ {id} |-> projects[p]]
        /\ sessions' = IF db.foreign_keys[1]
                       THEN [s \in DOMAIN sessions |->
                                IF sessions[s].project_id = id
                                THEN [sessions[s] EXCEPT !.project_id = None]
                                ELSE sessions[s]]
                       ELSE sessions
        /\ project_paths' = IF db.foreign_keys[1]
                            THEN {r \in project_paths : r.project_id # id}
                            ELSE project_paths
        /\ project_identifiers' = IF db.foreign_keys[1]
                                  THEN {r \in project_identifiers : r.project_id # id}
                                  ELSE project_identifiers
        /\ last' = [Called("delete_project", None, "Ok") EXCEPT !.project_id = id]
    /\ UNCHANGED <<messages, probe_sources, run, writers, source, db, config>>

NextSchema ==
    \/ SchemaOpen
    \/ SchemaCreateProject
    \/ SchemaAssign
    \/ SchemaAssignNone
    \/ SchemaUnassign
    \/ SchemaStore
    \/ SchemaDeleteSession
    \/ SchemaDeleteProject

SpecSchema == Init /\ [][NextSchema]_vars

\* C19: under the store as MetadataStore::open opens it, deleting a session
\* row removes its message rows and their tool_uses and token_usage rows, and
\* deleting a project removes no session and sets project_id to null on
\* exactly the sessions that referenced it.  open never turns foreign keys
\* on, so in a build whose SQLite leaves them off the rows stay.
C19_DeleteCascades ==
    [][/\ last'.op = "delete_session"
          => LET gone == {MessageIdsOf(db, last'.session_id)[k] :
                             k \in 1..Len(MessageIdsOf(db, last'.session_id))}
             IN  /\ MessagesOf(messages', last'.session_id) = <<>>
                 /\ MessageIdsOf(db', last'.session_id) = <<>>
                 /\ \A r \in db'.tool_uses : r.message_id \notin gone
                 /\ \A r \in db'.token_usage : r.message_id \notin gone
       /\ last'.op = "delete_project"
          => /\ DOMAIN sessions' = DOMAIN sessions
             /\ \A s \in DOMAIN sessions :
                    sessions'[s] = IF sessions[s].project_id = last'.project_id
                                   THEN [sessions[s] EXCEPT !.project_id = None]
                                   ELSE sessions[s]]_vars

\* C20, as stated: the tables projects, project_paths and project_identifiers
\* hold the same rows before and after the pipeline has stored a session
\* (upsert_session, then insert_messages).
C20_ProjectTablesUntouched ==
    [][last'.op = "insert_messages"
          => /\ projects' = projects
             /\ project_paths' = project_paths
             /\ project_identifiers' = project_identifiers]_vars

\* C20, amended: storing a session creates and deletes no project, project
\* path or project identifier; project_paths and project_identifiers are
\* unchanged, and of projects only the last_activity of the project the
\* extracted project path or remote matches is updated.
C20_PipelineCreatesNoProject ==
    [][last'.op = "insert_messages"
          => /\ DOMAIN projects' = DOMAIN projects
             /\ \A p \in DOMAIN projects :
                    \/ projects'[p] = projects[p]
                    \/ /\ p = last'.project_id
                       /\ projects'[p] = [projects[p] EXCEPT
                                             !.last_activity = projects'[p].last_activity]
             /\ project_paths' = project_paths
             /\ project_identifiers' = project_identifiers]_vars

\* a session was stored whose project path matched a project, which was
\* touched, while another project exists
C20_StoredIntoLinkedProject ==
    /\ last.op = "insert_messages"
    /\ Cardinality(DOMAIN projects) = 2
    /\ \E p \in DOMAIN projects :
          /\ sessions[last.session_id].project_id = p
          /\ projects[p].last_activity = last.session_id

(***************************************************************************)
(* Configuration: the probes map of Config and is_probe_enabled.           *)
(***************************************************************************)
\* probe ids a configuration file names: a registered probe, the frozen
\* probe of the repository and the probe of the unit test
ConfiguredIds == {"claude:ClaudeCode", "gemini:Antigravity"}

\* status values a file can give ('Frozen' is not 'frozen')
Statuses == {"active", "frozen", "deprecated", "Frozen"}

\* default_enabled
default_enabled == TRUE

\* ProbeConfig as serde builds it: enabled defaults to default_enabled(),
\* status and base_path to None
ProbeConfig(enabled, status) ==
    [enabled |-> unwrap_or(enabled, default_enabled), status |-> status,
     base_path |-> <<>>]

\* an is_probe_enabled that looks at the status only
is_probe_enabled_StatusOnly(probes, probe_id) ==
    IF probe_id \notin DOMAIN probes THEN TRUE
    ELSE probes[probe_id].status \notin {<<"frozen">>, <<"deprecated">>}

\* Config::is_probe_enabled: map_or(true, ..) over the entry of the probe
is_probe_enabled(probes, probe_id) ==
    IF probe_id \notin DOMAIN probes THEN TRUE
    ELSE IF ~probes[probe_id].enabled THEN FALSE
    ELSE IF probes[probe_id].status \in {<<"frozen">>, <<"deprecated">>} THEN FALSE
    ELSE TRUE

\* the configuration gains or replaces the entry of one probe (HashMap insert,
\* or a probes: entry of the YAML file)
ConfigInsert ==
    /\ \E probe_id \in ConfiguredIds, enabled \in {<<>>, <<TRUE>>, <<FALSE>>},
          status \in {<<>>} \cup {<<st>> : st \in Statuses} :
          config' = [config EXCEPT
                        !.probes = [id \in DOMAIN config.probes \cup {probe_id} |->
                                       IF id = probe_id THEN ProbeConfig(enabled, status)
                                       ELSE config.probes[id]]]
    /\ UNCHANGED <<sessions, messages, projects, project_paths, project_identifiers,
                   probe_sources, last, run, writers, source, db>>

\* a caller asks whether a probe is enabled; the call keeps the map it was
\* asked of
ConfigIsProbeEnabled ==
    /\ \E probe_id \in ConfiguredIds :
          config' = [config EXCEPT
                        !.call = [op |-> "is_probe_enabled", probes |-> config.probes,
                                  probe_id |-> probe_id,
                                  result |-> is_probe_enabled(config.probes, probe_id)]]
    /\ UNCHANGED <<sessions, messages, projects, project_paths, project_identifiers,
                   probe_sources, last, run, writers, source, db>>

NextConfig ==
    \/ ConfigInsert
    \/ ConfigIsProbeEnabled

SpecConfig == Init /\ [][NextConfig]_vars

\* C21: is_probe_enabled(id) is false exactly when the probe's entry has
\* enabled = false or the status 'frozen' or 'deprecated'; a probe without
\* an entry, or enabled with any other status or none, is enabled.
C21_ProbeEnabled ==
    LET call == config.call
        probes == call.probes
    IN  call.op = "is_probe_enabled"
            => (call.result = FALSE
                  <=> /\ call.probe_id \in DOMAIN probes
                      /\ \/ probes[call.probe_id].enabled = FALSE
                         \/ probes[call.probe_id].status = <<"frozen">>
                         \/ probes[call.probe_id].status = <<"deprecated">>)

\* the question was asked of a probe that is switched off by its flag alone
\* while the other probe is enabled with a status of another spelling
C21_AskedOfDisabledProbe ==
    /\ config.call.op = "is_probe_enabled"
    /\ config.call.probe_id \in DOMAIN config.call.probes
    /\ config.call.probes[config.call.probe_id].enabled = FALSE
    /\ config.call.probes[config.call.probe_id].status \in {<<>>, <<"active">>}
    /\ config.call.result = FALSE
    /\ \E other \in DOMAIN config.call.probes :
          /\ config.call.probes[other].status = <<"Frozen">>
          /\ is_probe_enabled(config.call.probes, other)

(***************************************************************************)
(* Stability and uniformity of short hashes, under Spec.                   *)
(***************************************************************************)
\* C22: a stored session's short_hash changes only from its bare base to
\* base-1, in the step that stores the first other session of that base; a
\* hash that carries a suffix never changes.  The rename is committed also
\* when the INSERT of the colliding session is then rejected (C11).
C22_ShortHashStable ==
    [][\A id \in DOMAIN sessions \cap DOMAIN sessions' :
          sessions'[id].short_hash # sessions[id].short_hash
              => LET base_hash == BaseHash(sessions[id].external_id)
                 IN  /\ sessions[id].short_hash = base_hash
                     /\ sessions'[id].short_hash = base_hash \o "-1"
                     /\ WithBase(sessions, base_hash) = {id}
                     /\ \E new \in DOMAIN sessions' \ DOMAIN sessions :
                            BaseHash(sessions'[new].external_id) = base_hash]_vars

\* C23: in every reachable state, when two or more sessions have external
\* ids of the same base, none of them holds the bare base as short_hash.
C23_CollidingHashesSuffixed ==
    \A a, b \in DOMAIN sessions :
        (a # b /\ SameBase(a, b))
            => sessions[a].short_hash # BaseHash(sessions[a].external_id)

(***************************************************************************)
(* Re-extraction and user assignment, under SpecLink.                      *)
(***************************************************************************)
\* C24: a successful upsert of an existing session sets title,
\* primary_provider, primary_model, message_count and last_timestamp to the
\* values of the extraction it was given, and leaves every other column of
\* the row and every other session as they were.
C24_UpsertRefreshesDescriptiveFields ==
    [][(last'.op = "upsert_session" /\ last'.existed /\ last'.result # "Err")
          => LET id == last'.session_id
                 x == last'.extracted[1]
             IN  /\ DOMAIN sessions' = DOMAIN sessions
                 /\ sessions'[id] = [sessions[id] EXCEPT
                                        !.title            = x.title,
                                        !.primary_provider = x.primary_provider,
                                        !.primary_model    = x.primary_model,
                                        !.message_count    = x.message_count,
                                        !.last_timestamp   = x.last_timestamp]
                 /\ \A other \in DOMAIN sessions \ {id} : sessions'[other] = sessions[other]]_vars

\* an 'auto' session without a project was extracted again with other
\* values, and with a path that a project created since then has: the
\* descriptive columns changed, project_id and the raw path did not
C24_RefreshedUnlinkedSession ==
    /\ last.op = "upsert_session" /\ last.existed /\ last.result = last.session_id
    /\ last.project_id # None
    /\ sessions[last.session_id].project_id = None
    /\ sessions[last.session_id].project_assignment = "auto"
    /\ sessions[last.session_id].raw_project_path = None
    /\ last.project_path = ProjectPath
    /\ sessions[last.session_id].title = None
    /\ sessions[last.session_id].message_count = 0
    /\ sessions[last.session_id].first_timestamp = "ts1"

(***************************************************************************)
(* A failed insert_messages, under SpecRun.                                *)
(***************************************************************************)
\* C25: when insert_messages returns an error for a session that was stored
\* before, the session's message rows are the rows it had before the call.
\* The DELETE and every INSERT commit on their own, so a rejected INSERT
\* leaves the old rows deleted and a prefix of the new ones written.
C25_FailedInsertKeepsMessages ==
    [][(last'.op = "insert_messages" /\ last'.result = "Err" /\ run'.existed)
          => MessagesOf(messages', last'.session_id)
                 = MessagesOf(messages, last'.session_id)]_vars

(***************************************************************************)
(* Content references resolved again, under SpecProbe.                     *)
(***************************************************************************)
\* the number of bytes before the n-th raw line of a file
RECURSIVE LineStart(_, _)
LineStart(raws, n) == IF n <= 1 THEN 0 ELSE LineStart(raws, n - 1) + Len(raws[n - 1])

\* C26: for every message extract_metadata returns for a session file,
\* line_number is the 1-based number of the line the record is on,
\* byte_offset is the position where that line starts, and get_content on
\* the unmodified file returns that line.  The code counts one byte for
\* every line end, so after a line ending in CR LF the offsets are short.
C26_LineReferenceRoundTrip ==
    LET call == source.call
    IN  (call.op = "extract_metadata" /\ call.probe = RegisteredProbes[1]
            /\ call.arg # <<>> /\ call.result.ok)
            => LET raws == RawLines(call.arg[1], 1)
                   got == call.result.value.messages
               IN  \A k \in 1..Len(got) :
                       LET ref == got[k].content_ref
                           n == unwrap_or(ref.line_number, 0)
                           content == ClaudeGetContent(call.arg, ref)
                       IN  /\ n \in 1..Len(raws)
                           /\ ParseLine(StripEol(raws[n])) # <<>>
                           /\ ParseLine(StripEol(raws[n]))[1].role = got[k].role
                           /\ ParseLine(StripEol(raws[n]))[1].model = got[k].model
                           /\ \A j \in 1..(k - 1) :
                                  unwrap_or(got[j].content_ref.line_number, 0) < n
                           /\ ref.byte_offset = <<LineStart(raws, n)>>
                           /\ content.ok
                           /\ StripEol(content.value) = StripEol(raws[n])

\* C27: get_content on the reference extracted for message index i of
\* thread T returns the text of message i of T as the table holds it, and an
\* error when T has no message i any more.  The code reads the first row of
\* the table whatever the thread, and returns the empty string for an index
\* that is gone.
C27_ThreadReferenceResolves ==
    LET call == source.call
    IN  (call.op = "get_content" /\ call.probe = RegisteredProbes[3])
            => LET thread_messages == ZedRowOf(call.arg.table, call.arg.thread_id)[1]
                                          .thread.messages
                   i == call.arg.reference.line_number[1]
               IN  IF i < Len(thread_messages)
                   THEN call.result = Ok(thread_messages[i + 1].text)
                   ELSE ~call.result.ok

(***************************************************************************)
(* User assignment, under SpecSchema.                                      *)
(***************************************************************************)
\* the sessions table with the project columns of one row set
WithAssignment(S, session_id, project_id, project_assignment) ==
    [id \in DOMAIN S |->
        IF id = session_id
        THEN [S[id] EXCEPT !.project_id = project_id,
                           !.project_assignment = project_assignment]
        ELSE S[id]]

\* C28: assign_session_to_project(s, Some(p)) sets s to (p, 'user');
\* unassign_session(s) and assign_session_to_project(s, None) set it to
\* (null, 'unassigned'); no other column of s, no other session, no project
\* and no row of messages, tool_uses and token_usage changes.
C28_AssignSetsProjectColumnsOnly ==
    [][/\ last'.op = "assign_session_to_project"
          => sessions' = WithAssignment(sessions, last'.session_id, last'.project_id,
                                        IF last'.project_id # None
                                        THEN "user" ELSE "unassigned")
       /\ last'.op = "unassign_session"
          => sessions' = WithAssignment(sessions, last'.session_id, None, "unassigned")
       /\ last'.op \in {"assign_session_to_project", "unassign_session"}
          => /\ messages' = messages
             /\ db' = db
             /\ projects' = projects]_vars

\* a session whose extracted path matches one project was assigned by the
\* user to the other project, while another session and message rows exist
C28_AssignedAgainstAutoLink ==
    /\ last.op = "assign_session_to_project"
    /\ last.project_id # None
    /\ Cardinality(DOMAIN sessions) = 2
    /\ MessagesOf(messages, last.session_id) # <<>>
    /\ sessions[last.session_id].raw_project_path = ProjectPath
    /\ FindProjectByPath(ProjectPath) \notin {None, last.project_id}
    /\ sessions[last.session_id].project_id = last.project_id
    /\ sessions[last.session_id].project_assignment = "user"

(***************************************************************************)
(* The assignment state of a session, under SpecLink.                      *)
(***************************************************************************)
\* C29: in every state reached through upsert_session,
\* assign_session_to_project and unassign_session, project_assignment is
\* 'auto', 'user' or 'unassigned', 'unassigned' comes with a null project_id
\* and 'user' with a project_id; and a session that is 'user' or
\* 'unassigned' is never 'auto' again.
C29_AssignmentStates ==
    /\ [](\A id \in DOMAIN sessions :
             /\ sessions[id].project_assignment \in {"auto", "user", "unassigned"}
             /\ sessions[id].project_assignment = "unassigned"
                    => sessions[id].project_id = None
             /\ sessions[id].project_assignment = "user"
                    => sessions[id].project_id # None)
    /\ [][\A id \in DOMAIN sessions :
             sessions[id].project_assignment \in {"user", "unassigned"}
                 => /\ id \in DOMAIN sessions'
                    /\ sessions'[id].project_assignment # "auto"]_vars

\* a session the user had unassigned was extracted again with a path that
\* matches a project, and is still unassigned
C29_UnassignedSessionReextracted ==
    /\ last.op = "upsert_session" /\ last.existed /\ last.result = last.session_id
    /\ last.project_id # None
    /\ sessions[last.session_id].project_assignment = "unassigned"
    /\ sessions[last.session_id].project_id = None

(***************************************************************************)
(* Which project a stored session stamps, under SpecLink.                  *)
(***************************************************************************)
\* C30: upsert_session changes the row of a project only if the session is
\* linked to that project after the call; a session the user assigned to
\* another project or unassigned leaves the project its path or remote
\* matches as it was.
C30_TouchesOnlyLinkedProject ==
    [][last'.op = "upsert_session"
          => \A p \in DOMAIN projects :
                 (p \in DOMAIN projects' /\ projects'[p] # projects[p])
                     => /\ last'.session_id \in DOMAIN sessions'
                        /\ sessions'[last'.session_id].project_id = p]_vars

=============================================================================
